---- MODULE Spec2Model ----
(***************************************************************************)
(* A model of the invoice repository:                                      *)
(*   - the relational store behind src/Desktop/M (models.py, queries.py),  *)
(*     as SQLAlchemy drives it on the default SQLite backend (db.py);      *)
(*   - the HTTP endpoints of src/Desktop/M/app.py and app_aseel.py;        *)
(*   - the extraction step of services/invoice_parser.py;                  *)
(*   - the upload endpoint of src/app/views/invoice_views.py over the      *)
(*     in-memory StorageService.                                           *)
(*                                                                         *)
(* Python values are tagged records: None, a str (a sequence of one        *)
(* character strings) and a float (an integer count of hundredths).  A     *)
(* dict is a function whose DOMAIN is its key set, so that d.get(k) and    *)
(* "k in d" are what they are in the code.  The store keeps every value it *)
(* is given unchanged (no column type coercion is modelled).               *)
(***************************************************************************)
EXTENDS Integers, Sequences, FiniteSets, TLC

VARIABLES
    invoices,      \* table "invoices": a set of header rows (models.py Invoice)
    items,         \* table "items": a set of item rows (models.py Item)
    confidences,   \* table "confidences": a set of rows (models.py Confidence)
    last,          \* the last operation: its name, its input and what it returned
    storage,       \* StorageService._invoices: a dict id -> invoice
    erp_calls,     \* create_purchase_invoice calls made by the last upload
    doc_client,    \* invoice_parser.doc_client: None or the client object
    requests       \* the requests in flight and the finished ones: id -> its
                   \* position, its DB session and what it carries

db == <<invoices, items, confidences>>
vars == <<invoices, items, confidences, last, storage, erp_calls, doc_client,
          requests>>

----------------------------------------------------------------------------
(* Bounds of the model *)

\* the longest Items list of an extraction result or update payload
MaxItems == 2
\* the largest surrogate id the items table hands out
MaxItemId == 2
\* the longest list of detected document types in a service response
MaxTypes == 2
\* the number of invoices the in-memory StorageService may hold
MaxStored == 2
\* the longest of the short strings the formatting functions are given
MaxLen == 2
\* the most requests in flight at once
MaxRequests == 2
\* the most top-level fields of a parsed document
MaxFields == 2

----------------------------------------------------------------------------
(* Python values *)

None == [t |-> "none"]
Str(cs) == [t |-> "str", s |-> cs]
Num(n) == [t |-> "num", n |-> n]
True == [t |-> "bool", b |-> TRUE]
False == [t |-> "bool", b |-> FALSE]
EmptyDict == [k \in {} |-> None]

\* a list held where None may be held instead, and the name of a field
\* (a str the code only compares and uses as a dict key)
List(xs) == [t |-> "list", v |-> xs]
Key(k) == [t |-> "key", k |-> k]

\* bool(v): None, "", 0, 0.0 and [] are false, an object is true
Truthy(v) ==
    CASE v.t = "none" -> FALSE
      [] v.t = "str" -> Len(v.s) > 0
      [] v.t = "key" -> v.k # ""
      [] v.t = "num" -> v.n # 0
      [] v.t = "list" -> Len(v.v) > 0
      [] OTHER -> TRUE
\* hasattr(o, a)
HasAttr(o, a) == a \in DOMAIN o
\* d[k] = v
Put(d, k, v) == (k :> v) @@ d
\* F(x), with x computed once however often F uses it
Let(x, F(_)) == CHOOSE r \in {F(v) : v \in {x}} : TRUE

\* d.get(k) and d.get(k, default)
Get(d, k) == IF k \in DOMAIN d THEN d[k] ELSE None
GetD(d, k, default) == IF k \in DOMAIN d THEN d[k] ELSE default

\* the characters of the model in code-point order
Chars == <<" ", "$", "'", "+", ",", "-", ".",
           "0", "1", "2", "3", "4", "5", "6", "7", "8", "9", ":",
           "A", "B", "C", "D", "E", "F", "G", "H", "I", "J", "K", "L", "M",
           "N", "O", "P", "Q", "R", "S", "T", "U", "V", "W", "X", "Y", "Z",
           "a", "b", "c", "d", "e", "f", "g", "h", "i", "j", "k", "l", "m",
           "n", "o", "p", "q", "r", "s", "t", "u", "v", "w", "x", "y", "z">>
Ord(c) == CHOOSE i \in 1..Len(Chars) : Chars[i] = c

\* str.lower() on one character and on a string
UpperCase == {Chars[i] : i \in 19..44}
LowerChar(c) == IF c \in UpperCase THEN Chars[Ord(c) + 26] ELSE c
Lower(cs) == [i \in 1..Len(cs) |-> LowerChar(cs[i])]

\* str.endswith(suffix)
EndsWith(cs, suffix) ==
    /\ Len(cs) >= Len(suffix)
    /\ \A i \in 1..Len(suffix) : cs[Len(cs) - Len(suffix) + i] = suffix[i]

\* byte-wise comparison of two strings (SQLite's BINARY collation): a <= b
RECURSIVE LexLeq(_, _)
LexLeq(a, b) ==
    IF a = <<>> THEN TRUE
    ELSE IF b = <<>> THEN FALSE
    ELSE IF Ord(Head(a)) < Ord(Head(b)) THEN TRUE
    ELSE IF Ord(Head(a)) > Ord(Head(b)) THEN FALSE
    ELSE LexLeq(Tail(a), Tail(b))

----------------------------------------------------------------------------
(* The three tables (models.py) *)

HeaderFields == <<"VendorName", "InvoiceDate", "BillingAddressRecipient",
                  "ShippingAddress", "SubTotal", "ShippingCost", "InvoiceTotal">>
ItemFields == <<"Description", "Name", "Quantity", "UnitPrice", "Amount">>

Range(f) == {f[i] : i \in DOMAIN f}

\* the set of stored primary keys
StoredIds == {r.InvoiceId : r \in invoices}
\* db.query(Invoice).filter_by(InvoiceId=invoice_id).first()
InvoiceRow(invoice_id) ==
    IF invoice_id \in StoredIds
    THEN CHOOSE r \in invoices : r.InvoiceId = invoice_id
    ELSE None
\* db.query(Confidence).filter_by(InvoiceId=invoice_id).first()
ConfidenceRow(invoice_id) ==
    IF \E c \in confidences : c.InvoiceId = invoice_id
    THEN CHOOSE c \in confidences : c.InvoiceId = invoice_id
    ELSE None
\* db.query(Item).filter_by(id=item_id).first()
ItemRow(item_id) ==
    IF \E i \in items : i.id = item_id
    THEN CHOOSE i \in items : i.id = item_id
    ELSE None

\* the rows of a set of item rows in ascending id order (SQLite scans the
\* items table in rowid order; the relationship states no order_by)
RECURSIVE ById(_)
ById(rows) ==
    IF rows = {} THEN <<>>
    ELSE LET first == CHOOSE r \in rows : \A q \in rows : r.id <= q.id
         IN <<first>> \o ById(rows \ {first})

\* a load that gives the newest row first (what the load must differ from)
ItemsOfNewestFirst(invoice_id) ==
    LET rows == ById({i \in items : i.InvoiceId = invoice_id})
    IN [k \in 1..Len(rows) |-> rows[Len(rows) + 1 - k]]
\* invoice.items: the relationship load, every item row carrying the key
ItemsOf(invoice_id) == ById({i \in items : i.InvoiceId = invoice_id})

\* the id SQLite gives the next inserted item row (INTEGER PRIMARY KEY
\* without AUTOINCREMENT: the largest rowid plus one)
NextItemId == IF items = {} THEN 1
              ELSE 1 + (CHOOSE m \in {i.id : i \in items} :
                            \A i \in items : i.id <= m)

----------------------------------------------------------------------------
(* Inputs: the sample values requests are drawn from *)

InvoiceIds == {Str(<<"1">>), Str(<<"2">>)}
\* the vendor names asked for: one that requests store, and one that no
\* request ever stores
NoVendor == Str(<<"X">>)
QueryNames == {Str(<<"S">>), NoVendor}

Item1 == [Description |-> Str(<<"D">>), Name |-> Str(<<"P", "1">>),
          Quantity |-> Num(300), UnitPrice |-> Num(1794), Amount |-> Num(5382)]
Item2 == [Description |-> Str(<<"D">>), Name |-> Str(<<"P", "2">>),
          Quantity |-> Num(300), UnitPrice |-> Num(1794), Amount |-> Num(5382)]
\* the Items lists of the requests: the first n of Item2, Item1, Item2, ...
SampleItem(k) == IF k % 2 = 1 THEN Item2 ELSE Item1
ItemLists == {[k \in 1..n |-> SampleItem(k)] : n \in 0..MaxItems}

ConfFull == [VendorName |-> Num(94), InvoiceDate |-> Num(99),
             BillingAddressRecipient |-> Num(98), ShippingAddress |-> Num(97),
             SubTotal |-> Num(90), ShippingCost |-> Num(96),
             InvoiceTotal |-> Num(95)]

\* the "data" dict of an extraction result; "ShippingAddress" is a key the
\* document did not yield
HeaderData(id, vendor, date) ==
    [InvoiceId |-> id, VendorName |-> vendor, InvoiceDate |-> date,
     BillingAddressRecipient |-> Str(<<"A", "B">>), SubTotal |-> Num(5382),
     ShippingCost |-> Num(429), InvoiceTotal |-> Num(5811)]
WithItems(data, its) ==
    [k \in DOMAIN data \cup {"Items"} |-> IF k = "Items" THEN its ELSE data[k]]

\* the headers of the requests: the first id with two vendor names that
\* differ in case only, the second with a date that sorts after "10" as a
\* string
Headers ==
    {HeaderData(Str(<<"1">>), Str(<<"S">>), Str(<<"1", "0">>)),
     HeaderData(Str(<<"1">>), Str(<<"s">>), Str(<<"9">>)),
     HeaderData(Str(<<"2">>), Str(<<"S">>), Str(<<"9">>))}

\* extraction results {confidence, data, dataConfidence}: one per header
\* and Items list, one per id whose data has no "Items" key and whose
\* dataConfidence is empty, and one whose data has no "InvoiceId"
ExtractionResults ==
    {[confidence |-> Num(100), data |-> WithItems(h, its),
      dataConfidence |-> ConfFull] : h \in Headers, its \in ItemLists}
    \cup {[confidence |-> None,
           data |-> HeaderData(id, Str(<<"S">>), Str(<<"9">>)),
           dataConfidence |-> EmptyDict] : id \in InvoiceIds}
    \cup {[confidence |-> None, data |-> [VendorName |-> Str(<<"S">>)],
           dataConfidence |-> EmptyDict]}

----------------------------------------------------------------------------
(* queries.py: the rows an operation builds *)

\* Invoice(InvoiceId=data["data"].get("InvoiceId"), ...)
NewInvoice(data) ==
    [InvoiceId |-> Get(data.data, "InvoiceId"),
     VendorName |-> Get(data.data, "VendorName"),
     InvoiceDate |-> Get(data.data, "InvoiceDate"),
     BillingAddressRecipient |-> Get(data.data, "BillingAddressRecipient"),
     ShippingAddress |-> Get(data.data, "ShippingAddress"),
     SubTotal |-> Get(data.data, "SubTotal"),
     ShippingCost |-> Get(data.data, "ShippingCost"),
     InvoiceTotal |-> Get(data.data, "InvoiceTotal")]

\* Item(Description=it.get("Description"), ...) appended to invoice.items:
\* the flush gives it the next id and the owner's key
NewItem(it, id, invoice_id) ==
    [id |-> id, InvoiceId |-> invoice_id,
     Description |-> Get(it, "Description"), Name |-> Get(it, "Name"),
     Quantity |-> Get(it, "Quantity"), UnitPrice |-> Get(it, "UnitPrice"),
     Amount |-> Get(it, "Amount")]
\* one row per entry of an Items list, in the order of the list
NewItems(its, invoice_id) ==
    {NewItem(its[k], NextItemId + k - 1, invoice_id) : k \in 1..Len(its)}

\* Confidence(VendorName=conf_data.get("VendorName"), ...)
NewConfidence(conf_data, invoice_id) ==
    [InvoiceId |-> invoice_id,
     VendorName |-> Get(conf_data, "VendorName"),
     InvoiceDate |-> Get(conf_data, "InvoiceDate"),
     BillingAddressRecipient |-> Get(conf_data, "BillingAddressRecipient"),
     ShippingAddress |-> Get(conf_data, "ShippingAddress"),
     SubTotal |-> Get(conf_data, "SubTotal"),
     ShippingCost |-> Get(conf_data, "ShippingCost"),
     InvoiceTotal |-> Get(conf_data, "InvoiceTotal")]

\* the item ids an insert of n rows needs stay within the model's bound
IdsAvailable(n) == NextItemId + n - 1 <= MaxItemId

----------------------------------------------------------------------------
(* queries.py: Invoice CRUD.  Each function is an operator giving what the *)
(* call returns or raises and the tables after its commit (or after the    *)
(* rollback of a failed one).                                              *)

Unchanged(ret, raised) ==
    [ret |-> ret, raised |-> raised, invoices |-> invoices, items |-> items,
     confidences |-> confidences]

\* a commit that fails for a missing primary key only
SaveFailsWithoutKeyOnly(data) == Get(data.data, "InvoiceId") = None
\* the commit of save_invoice_extraction fails when the primary key is
\* missing or taken, in invoices or in confidences
SaveFails(data) ==
    LET id == Get(data.data, "InvoiceId")
    IN \/ id = None
       \/ id \in StoredIds
       \/ \E c \in confidences : c.InvoiceId = id

\* a save that commits the header with its items first and the confidence
\* row after them (what the single commit must differ from)
save_invoice_extraction_in_two_commits(data) ==
    LET invoice == NewInvoice(data)
        its == GetD(data.data, "Items", <<>>)
        conf_data == GetD(data, "dataConfidence", EmptyDict)
    IN IF invoice.InvoiceId = None \/ invoice.InvoiceId \in StoredIds
       THEN Unchanged(None, "IntegrityError")
       ELSE IF \E c \in confidences : c.InvoiceId = invoice.InvoiceId
       THEN [ret |-> None, raised |-> "IntegrityError",
             invoices |-> invoices \cup {invoice},
             items |-> items \cup NewItems(its, invoice.InvoiceId),
             confidences |-> confidences]
       ELSE [ret |-> invoice, raised |-> "",
             invoices |-> invoices \cup {invoice},
             items |-> items \cup NewItems(its, invoice.InvoiceId),
             confidences |-> confidences
                 \cup {NewConfidence(conf_data, invoice.InvoiceId)}]

save_invoice_extraction(data) ==
    LET invoice == NewInvoice(data)
        its == GetD(data.data, "Items", <<>>)
        conf_data == GetD(data, "dataConfidence", EmptyDict)
    IN IF SaveFails(data)
       THEN Unchanged(None, "IntegrityError")
       ELSE [ret |-> invoice, raised |-> "",
             invoices |-> invoices \cup {invoice},
             items |-> items \cup NewItems(its, invoice.InvoiceId),
             confidences |-> confidences
                 \cup {NewConfidence(conf_data, invoice.InvoiceId)}]

\* the dict of one item in a composite read
ItemDict(i) ==
    [Description |-> i.Description, Name |-> i.Name, Quantity |-> i.Quantity,
     UnitPrice |-> i.UnitPrice, Amount |-> i.Amount]

get_invoice_by_id(invoice_id) ==
    LET invoice == InvoiceRow(invoice_id)
        its == ItemsOf(invoice_id)
    IN IF invoice = None THEN None
       ELSE [t |-> "dict",
             InvoiceId |-> invoice.InvoiceId,
             VendorName |-> invoice.VendorName,
             InvoiceDate |-> invoice.InvoiceDate,
             BillingAddressRecipient |-> invoice.BillingAddressRecipient,
             ShippingAddress |-> invoice.ShippingAddress,
             SubTotal |-> invoice.SubTotal,
             ShippingCost |-> invoice.ShippingCost,
             InvoiceTotal |-> invoice.InvoiceTotal,
             Items |-> [k \in 1..Len(its) |-> ItemDict(its[k])]]

\* InvoiceDate ascending as SQLite orders a TEXT column: NULL first, then
\* byte-wise
DateLeq(a, b) ==
    \/ a = None
    \/ a # None /\ b # None /\ LexLeq(a.s, b.s)

\* a filter that ignores case (what filter_by must differ from)
VendorMatchesIgnoringCase(row, vendor_name) ==
    row.VendorName # None /\ Lower(row.VendorName.s) = Lower(vendor_name.s)

\* filter_by(VendorName=vendor_name)
VendorMatches(row, vendor_name) == row.VendorName = vendor_name

\* every order the query may return its rows in: sorted by InvoiceDate,
\* rows of equal date in any order
OrderedByDate(rows) ==
    {s \in [1..Cardinality(rows) -> rows] :
        /\ Range(s) = rows
        /\ \A i, j \in DOMAIN s : i < j =>
               DateLeq(s[i].InvoiceDate, s[j].InvoiceDate)}

\* the lists get_invoices_by_vendor may return
get_invoices_by_vendor(vendor_name) ==
    {[k \in DOMAIN s |-> get_invoice_by_id(s[k].InvoiceId)] :
        s \in OrderedByDate({r \in invoices : VendorMatches(r, vendor_name)})}

\* v is None (v may be a dict, which has no key "t")
IsNone(v) == "t" \in DOMAIN v /\ v.t = "none"
\* bool(d) of a dict or None: a non-empty dict
DictTruthy(d) == ~IsNone(d) /\ DOMAIN d # {}

\* setattr(obj, field, data.get(field)) for every listed field in data
SetFields(row, fields, data) ==
    [f \in DOMAIN row |->
        IF f \in Range(fields) /\ f \in DOMAIN data THEN data[f] ELSE row[f]]

\* data.get("dataConfidence") or data.get("Confidence") or {}
ConfDataOf(data) ==
    IF DictTruthy(Get(data, "dataConfidence")) THEN data["dataConfidence"]
    ELSE IF DictTruthy(Get(data, "Confidence")) THEN data["Confidence"]
    ELSE EmptyDict

\* a replacement that takes the old rows out of invoice.items without
\* deleting them: they stay with no owner (what db.delete must differ from)
ReplaceItemsOrphaning(invoice_id, data) ==
    IF "Items" \in DOMAIN data
    THEN {IF i.InvoiceId = invoice_id THEN [i EXCEPT !.InvoiceId = None]
          ELSE i : i \in items}
             \cup NewItems(data["Items"], invoice_id)
    ELSE items

\* the items table after update_invoice: with "Items" in data the rows of
\* invoice.items are deleted and one row per entry is inserted (the flush
\* inserts before it deletes, so the new ids follow every existing id)
ReplaceItems(invoice_id, data) ==
    IF "Items" \in DOMAIN data
    THEN (items \ {i \in items : i.InvoiceId = invoice_id})
             \cup NewItems(data["Items"], invoice_id)
    ELSE items

\* an upsert that writes a whole new record over an existing one (what the
\* "if f in conf_data" must differ from)
UpsertConfidenceWhole(invoice_id, data) ==
    LET conf_data == ConfDataOf(data)
    IN IF ~DictTruthy(conf_data) THEN confidences
       ELSE {c \in confidences : c.InvoiceId # invoice_id}
                \cup {NewConfidence(conf_data, invoice_id)}

\* the confidences table after update_invoice
UpsertConfidence(invoice_id, data) ==
    LET conf_data == ConfDataOf(data)
        conf == ConfidenceRow(invoice_id)
    IN IF ~DictTruthy(conf_data) THEN confidences
       ELSE IF conf # None
       THEN (confidences \ {conf}) \cup {SetFields(conf, HeaderFields, conf_data)}
       ELSE confidences \cup {NewConfidence(conf_data, invoice_id)}

\* an update that, for an unknown id, clears the item rows carrying the id
\* (what update_invoice must differ from)
update_invoice_purging(invoice_id, data) ==
    LET invoice == InvoiceRow(invoice_id)
    IN IF invoice = None
       THEN [ret |-> None, raised |-> "", invoices |-> invoices,
             items |-> {i \in items : i.InvoiceId # invoice_id},
             confidences |-> confidences]
       ELSE [ret |-> SetFields(invoice, HeaderFields, data), raised |-> "",
             invoices |-> (invoices \ {invoice})
                 \cup {SetFields(invoice, HeaderFields, data)},
             items |-> ReplaceItems(invoice_id, data),
             confidences |-> UpsertConfidence(invoice_id, data)]

\* an update that sets every scalar field to data.get(field), in data or
\* not (what the "if field in data" must differ from)
update_invoice_resetting(invoice_id, data) ==
    LET invoice == InvoiceRow(invoice_id)
        updated == [f \in DOMAIN invoice |->
                       IF f \in Range(HeaderFields) THEN Get(data, f)
                       ELSE invoice[f]]
    IN IF invoice = None
       THEN Unchanged(None, "")
       ELSE [ret |-> updated, raised |-> "",
             invoices |-> (invoices \ {invoice}) \cup {updated},
             items |-> ReplaceItems(invoice_id, data),
             confidences |-> UpsertConfidence(invoice_id, data)]

update_invoice(invoice_id, data) ==
    LET invoice == InvoiceRow(invoice_id)
        updated == SetFields(invoice, HeaderFields, data)
    IN IF invoice = None
       THEN Unchanged(None, "")
       ELSE [ret |-> updated, raised |-> "",
             invoices |-> (invoices \ {invoice}) \cup {updated},
             items |-> ReplaceItems(invoice_id, data),
             confidences |-> UpsertConfidence(invoice_id, data)]

\* a delete of the header row alone, without the cascade (what
\* delete_invoice must differ from)
delete_invoice_without_cascade(invoice_id) ==
    LET invoice == InvoiceRow(invoice_id)
    IN IF invoice = None
       THEN Unchanged(False, "")
       ELSE [ret |-> True, raised |-> "",
             invoices |-> invoices \ {invoice},
             items |-> items, confidences |-> confidences]

\* db.delete(invoice): the cascade deletes invoice.items and
\* invoice.confidence with it
delete_invoice(invoice_id) ==
    LET invoice == InvoiceRow(invoice_id)
    IN IF invoice = None
       THEN Unchanged(False, "")
       ELSE [ret |-> True, raised |-> "",
             invoices |-> invoices \ {invoice},
             items |-> {i \in items : i.InvoiceId # invoice_id},
             confidences |-> {c \in confidences : c.InvoiceId # invoice_id}]

----------------------------------------------------------------------------
(* queries.py: Item CRUD *)

\* the insert checks no foreign key (SQLite leaves them unenforced unless
\* the connection asks, and db.py does not)
create_item(invoice_id, item_data) ==
    LET item == NewItem(item_data, NextItemId, invoice_id)
    IN [ret |-> item, raised |-> "", invoices |-> invoices,
        items |-> items \cup {item}, confidences |-> confidences]

update_item(item_id, data) ==
    LET item == ItemRow(item_id)
        updated == SetFields(SetFields(item, ItemFields, data),
                             <<"InvoiceId">>, data)
    IN IF item = None
       THEN Unchanged(None, "")
       ELSE [ret |-> updated, raised |-> "", invoices |-> invoices,
             items |-> (items \ {item}) \cup {updated},
             confidences |-> confidences]

delete_item(item_id) ==
    LET item == ItemRow(item_id)
    IN IF item = None
       THEN Unchanged(False, "")
       ELSE [ret |-> True, raised |-> "", invoices |-> invoices,
             items |-> items \ {item}, confidences |-> confidences]

----------------------------------------------------------------------------
(* queries.py: Confidence CRUD *)

\* the insert fails on a primary key that is missing or taken
create_confidence(invoice_id, conf_data) ==
    LET confidence == NewConfidence(conf_data, invoice_id)
    IN IF invoice_id = None \/ ConfidenceRow(invoice_id) # None
       THEN Unchanged(None, "IntegrityError")
       ELSE [ret |-> confidence, raised |-> "", invoices |-> invoices,
             items |-> items, confidences |-> confidences \cup {confidence}]

update_confidence(invoice_id, conf_data) ==
    LET conf == ConfidenceRow(invoice_id)
        updated == SetFields(conf, HeaderFields, conf_data)
    IN IF conf = None
       THEN Unchanged(None, "")
       ELSE [ret |-> updated, raised |-> "", invoices |-> invoices,
             items |-> items,
             confidences |-> (confidences \ {conf}) \cup {updated}]

delete_confidence(invoice_id) ==
    LET conf == ConfidenceRow(invoice_id)
    IN IF conf = None
       THEN Unchanged(False, "")
       ELSE [ret |-> True, raised |-> "", invoices |-> invoices,
             items |-> items, confidences |-> confidences \ {conf}]

----------------------------------------------------------------------------
(* The calls of the queries.py functions, as InvoiceController forwards   *)
(* them (controllers/invoice_controller.py)                                *)

UpdatePayloads ==
    {[VendorName |-> Str(<<"S">>)]}
    \cup {[Items |-> its] : its \in ItemLists}
    \cup {[dataConfidence |-> ConfFull], [Confidence |-> ConfFull],
          [dataConfidence |-> EmptyDict], EmptyDict}
\* more data of update_invoice: a header field beside an "InvoiceId" key,
\* Items lists, confidence data of one field, an empty dict before the
\* other key, an empty dict alone, and Items beside confidence data
ConfPart == [VendorName |-> Num(50)]
MorePayloads ==
    {[InvoiceId |-> Str(<<"2">>), InvoiceDate |-> Str(<<"8">>)]}
    \cup {[Items |-> its] : its \in ItemLists}
    \cup {[dataConfidence |-> ConfPart],
          [dataConfidence |-> EmptyDict, Confidence |-> ConfFull],
          [dataConfidence |-> EmptyDict],
          [Items |-> <<Item1>>, Confidence |-> ConfPart]}
ItemPayloads == {Item1, Item2}
ItemUpdates == {[Name |-> Item2.Name]}
                   \cup {[InvoiceId |-> id] : id \in InvoiceIds}
ConfPayloads == {ConfFull, EmptyDict}

\* the tables become what the call left, and last records the call
\* (the function, its key argument, what it returned and what it raised)
Commit(op, arg, data, out) ==
    /\ invoices' = out.invoices
    /\ items' = out.items
    /\ confidences' = out.confidences
    /\ last' = [op |-> op, arg |-> arg, ret |-> out.ret,
                raised |-> out.raised]
    /\ UNCHANGED <<storage, erp_calls, doc_client, requests>>

SaveInvoiceExtraction ==
    \E data \in ExtractionResults :
        /\ IdsAvailable(Len(GetD(data.data, "Items", <<>>)))
        /\ Commit("save_invoice_extraction", Get(data.data, "InvoiceId"), data,
                  save_invoice_extraction(data))

UpdateInvoice ==
    \E invoice_id \in InvoiceIds, data \in UpdatePayloads :
        /\ IdsAvailable(Len(GetD(data, "Items", <<>>)))
        /\ Commit("update_invoice", invoice_id, data,
                  update_invoice(invoice_id, data))

\* update_invoice with more data; last records the data too
UpdateInvoiceMore ==
    \E invoice_id \in InvoiceIds, data \in MorePayloads :
        /\ IdsAvailable(Len(GetD(data, "Items", <<>>)))
        /\ \E out \in {update_invoice(invoice_id, data)} :
               /\ invoices' = out.invoices
               /\ items' = out.items
               /\ confidences' = out.confidences
               /\ last' = [op |-> "update_invoice", arg |-> invoice_id,
                           data |-> data, ret |-> out.ret,
                           raised |-> out.raised]
        /\ UNCHANGED <<storage, erp_calls, doc_client, requests>>

DeleteInvoice ==
    \E invoice_id \in InvoiceIds :
        Commit("delete_invoice", invoice_id, None, delete_invoice(invoice_id))

CreateItem ==
    \E invoice_id \in InvoiceIds, item_data \in ItemPayloads :
        /\ IdsAvailable(1)
        /\ Commit("create_item", invoice_id, item_data,
                  create_item(invoice_id, item_data))

UpdateItem ==
    \E item_id \in 1..MaxItemId, data \in ItemUpdates :
        Commit("update_item", Num(item_id), data, update_item(item_id, data))

DeleteItem ==
    \E item_id \in 1..MaxItemId :
        Commit("delete_item", Num(item_id), None, delete_item(item_id))

CreateConfidence ==
    \E invoice_id \in InvoiceIds, conf_data \in ConfPayloads :
        Commit("create_confidence", invoice_id, conf_data,
               create_confidence(invoice_id, conf_data))

UpdateConfidence ==
    \E invoice_id \in InvoiceIds :
        Commit("update_confidence", invoice_id, ConfFull,
               update_confidence(invoice_id, ConfFull))

DeleteConfidence ==
    \E invoice_id \in InvoiceIds :
        Commit("delete_confidence", invoice_id, None,
               delete_confidence(invoice_id))

----------------------------------------------------------------------------
(* app.py and app_aseel.py: the read endpoints *)

\* the characters of a literal of the code
NotFoundPrefix == <<"I", "n", "v", "o", "i", "c", "e", " ", "w", "i", "t", "h",
                    " ", "I", "D", " ", "'">>
NotFoundSuffix == <<"'", " ", "n", "o", "t", " ", "f", "o", "u", "n", "d">>
UnknownVendor == Str(<<"U", "n", "k", "n", "o", "w", "n", " ",
                       "V", "e", "n", "d", "o", "r">>)

\* an endpoint that answers 200 with a null body for an unknown id (what
\* the endpoint must differ from)
app_get_invoice_by_id_without_404(invoice_id) ==
    [status |-> 200, body |-> get_invoice_by_id(invoice_id)]

\* app.py get_invoice_by_id: GET /invoices/{invoice_id}
app_get_invoice_by_id(invoice_id) ==
    LET invoice == get_invoice_by_id(invoice_id)
    IN IF invoice = None
       THEN [status |-> 404,
             detail |-> NotFoundPrefix \o invoice_id.s \o NotFoundSuffix]
       ELSE [status |-> 200, body |-> invoice]

\* app.py invoices_by_vendor: GET /invoices/vendor/{vendor_name}, given the
\* list the controller returned
invoices_by_vendor(vendor_name, invs) ==
    IF Len(invs) = 0
    THEN [status |-> 200,
          body |-> [VendorName |-> UnknownVendor, TotalInvoices |-> 0,
                    invoices |-> <<>>]]
    ELSE [status |-> 200,
          body |-> [VendorName |-> vendor_name, TotalInvoices |-> Len(invs),
                    invoices |-> invs]]

\* app_aseel.py invoices_by_vendor_endpoint: the same route in the other
\* application
invoices_by_vendor_endpoint(vendor_name, invs) ==
    [status |-> 200,
     body |-> [VendorName |-> vendor_name, TotalInvoices |-> Len(invs),
               invoices |-> invs]]

\* a request that reads: the tables stay, last records request and response
Respond(op, arg, response) ==
    /\ last' = [op |-> op, arg |-> arg, response |-> response]
    /\ UNCHANGED <<invoices, items, confidences, storage, erp_calls, doc_client,
                   requests>>

GetInvoiceById ==
    \E invoice_id \in InvoiceIds :
        Respond("GET /invoices/{invoice_id}", invoice_id,
                app_get_invoice_by_id(invoice_id))

InvoicesByVendor ==
    \E vendor_name \in QueryNames :
        \E invs \in get_invoices_by_vendor(vendor_name) :
            Respond("GET /invoices/vendor/{vendor_name}", vendor_name,
                    invoices_by_vendor(vendor_name, invs))

InvoicesByVendorAseel ==
    \E vendor_name \in QueryNames :
        \E invs \in get_invoices_by_vendor(vendor_name) :
            Respond("app_aseel GET /invoices/vendor/{vendor_name}", vendor_name,
                    invoices_by_vendor_endpoint(vendor_name, invs))

----------------------------------------------------------------------------
(* services/invoice_parser.py: the two formatting functions *)

Digits == <<"0", "1", "2", "3", "4", "5", "6", "7", "8", "9">>
DigitSet == {Digits[i] : i \in 1..10}
IsDigit(c) == c \in DigitSet
DigitValue(c) == (CHOOSE i \in 1..10 : Digits[i] = c) - 1
\* the number a string of digits spells, and the digits of a number padded
\* with zeros to a width
RECURSIVE IntOf(_)
IntOf(cs) ==
    IF cs = <<>> THEN 0
    ELSE 10 * IntOf(SubSeq(cs, 1, Len(cs) - 1)) + DigitValue(cs[Len(cs)])
RECURSIVE Padded(_, _)
Padded(n, width) ==
    IF width = 0 THEN <<>>
    ELSE Padded(n \div 10, width - 1) \o <<Digits[(n % 10) + 1]>>

\* str.replace(c, ""): the string without its occurrences of c
RECURSIVE Without(_, _)
Without(cs, c) ==
    IF cs = <<>> THEN <<>>
    ELSE IF Head(cs) = c THEN Without(Tail(cs), c)
    ELSE <<Head(cs)>> \o Without(Tail(cs), c)
\* str.strip(): the string without its leading and trailing blanks
RECURSIVE Strip(_)
Strip(cs) ==
    IF cs = <<>> THEN <<>>
    ELSE IF Head(cs) = " " THEN Strip(Tail(cs))
    ELSE IF cs[Len(cs)] = " " THEN Strip(SubSeq(cs, 1, Len(cs) - 1))
    ELSE cs
\* the maximal runs of non-blank characters of a string, in order
RECURSIVE Words(_)
Words(cs) ==
    IF cs = <<>> THEN <<>>
    ELSE IF Head(cs) = " " THEN Words(Tail(cs))
    ELSE LET stops == {i \in 1..Len(cs) : cs[i] = " "}
             n == IF stops = {} THEN Len(cs)
                  ELSE (CHOOSE i \in stops : \A j \in stops : i <= j) - 1
         IN <<SubSeq(cs, 1, n)>> \o Words(SubSeq(cs, n + 1, Len(cs)))

\* float(s) of a string already stripped: an optional sign, then digits with
\* at most one point and at least one digit.  (Exponents, underscores and
\* the spellings of infinity and nan are not among the model's inputs.)
Unsigned(cs) == IF cs # <<>> /\ Head(cs) \in {"+", "-"} THEN Tail(cs) ELSE cs
IsFloat(cs) ==
    LET u == Unsigned(cs)
    IN /\ \A i \in 1..Len(u) : IsDigit(u[i]) \/ u[i] = "."
       /\ Cardinality({i \in 1..Len(u) : u[i] = "."}) <= 1
       /\ \E i \in 1..Len(u) : IsDigit(u[i])
\* a fraction's digits without trailing zeros
RECURSIVE Trimmed(_)
Trimmed(cs) ==
    IF cs # <<>> /\ cs[Len(cs)] = "0" THEN Trimmed(SubSeq(cs, 1, Len(cs) - 1))
    ELSE cs
\* the float: a count of hundredths and, when the string has more, the
\* digits past the hundredths
FloatOf(cs) ==
    LET u == Unsigned(cs)
        dots == {i \in 1..Len(u) : u[i] = "."}
        dot == IF dots = {} THEN Len(u) + 1 ELSE CHOOSE i \in dots : TRUE
        whole == SubSeq(u, 1, dot - 1)
        frac == Trimmed(SubSeq(u, dot + 1, Len(u)))
        cents == SubSeq(frac \o <<"0", "0">>, 1, 2)
        magnitude == 100 * IntOf(whole) + IntOf(cents)
        n == IF cs # <<>> /\ Head(cs) = "-" THEN 0 - magnitude ELSE magnitude
    IN IF Len(frac) <= 2 THEN Num(n)
       ELSE [t |-> "num", n |-> n, rest |-> SubSeq(frac, 3, Len(frac))]

\* amount_format(value): "" for a false value, the float the text spells
\* once "$" and "," are removed and the rest stripped, the value itself when
\* that is no float.  str(value) of a float spells the same float.
amount_format(value) ==
    IF ~Truthy(value) THEN Str(<<>>)
    ELSE IF value.t = "num" THEN value
    ELSE IF value.t = "str"
    THEN Let(Strip(Without(Without(value.s, "$"), ",")),
             LAMBDA text : IF IsFloat(text) THEN FloatOf(text) ELSE value)
    ELSE value

\* the month abbreviations %b matches, in lower case
MonthNames == <<<<"j", "a", "n">>, <<"f", "e", "b">>, <<"m", "a", "r">>,
                <<"a", "p", "r">>, <<"m", "a", "y">>, <<"j", "u", "n">>,
                <<"j", "u", "l">>, <<"a", "u", "g">>, <<"s", "e", "p">>,
                <<"o", "c", "t">>, <<"n", "o", "v">>, <<"d", "e", "c">>>>
IsLeap(y) == (y % 4 = 0 /\ y % 100 # 0) \/ y % 400 = 0
DaysIn(y, m) ==
    IF m = 2 THEN (IF IsLeap(y) THEN 29 ELSE 28)
    ELSE IF m \in {4, 6, 9, 11} THEN 30 ELSE 31
\* the month a word names in any case, 0 if none
MonthOf(word) ==
    Let(Lower(word),
        LAMBDA name : IF \E m \in 1..12 : MonthNames[m] = name
                      THEN CHOOSE m \in 1..12 : MonthNames[m] = name
                      ELSE 0)
\* datetime.strptime(text, "%b %d %Y") succeeds on the text of these
\* words: a month name, a day of one or two digits, a year of four digits,
\* and a date the calendar has
IsDate(w) ==
    /\ Len(w) = 3
    /\ MonthOf(w[1]) # 0
    /\ Len(w[2]) \in {1, 2}
    /\ \A i \in 1..Len(w[2]) : IsDigit(w[2][i])
    /\ Len(w[3]) = 4
    /\ \A i \in 1..4 : IsDigit(w[3][i])
    /\ IntOf(w[3]) >= 1
    /\ IntOf(w[2]) >= 1
    /\ IntOf(w[2]) <= DaysIn(IntOf(w[3]), MonthOf(w[1]))
\* dt.replace(tzinfo=timezone.utc).isoformat()
IsoFormat(y, m, d) ==
    Padded(y, 4) \o <<"-">> \o Padded(m, 2) \o <<"-">> \o Padded(d, 2)
        \o <<"T", "0", "0", ":", "0", "0", ":", "0", "0",
             "+", "0", "0", ":", "0", "0">>

\* what a call returns, or the exception that leaves it
Returns(v) == [raised |-> "", value |-> v]
Raises(e) == [raised |-> e, value |-> None]

\* a format_date without the try block: the ValueError of strptime leaves it
format_date_unguarded(date_text) ==
    IF ~Truthy(date_text) THEN Returns(Str(<<>>))
    ELSE IF date_text.t # "str" THEN Raises("AttributeError")
    ELSE Let(Words(Strip(date_text.s)),
             LAMBDA w :
                 IF IsDate(w)
                 THEN Returns(Str(IsoFormat(IntOf(w[3]), MonthOf(w[1]),
                                            IntOf(w[2]))))
                 ELSE Raises("ValueError"))
\* format_date(date_text): "" for a false value, the ISO text of the date
\* when the stripped text parses, the text itself on ValueError; a value
\* that is not a str has no strip()
format_date(date_text) ==
    IF ~Truthy(date_text) THEN Returns(Str(<<>>))
    ELSE IF date_text.t # "str" THEN Raises("AttributeError")
    ELSE Let(Words(Strip(date_text.s)),
             LAMBDA w :
                 IF IsDate(w)
                 THEN Returns(Str(IsoFormat(IntOf(w[3]), MonthOf(w[1]),
                                            IntOf(w[2]))))
                 ELSE Returns(date_text))

----------------------------------------------------------------------------
(* services/invoice_parser.py: parse_invoice_from_pdf_enhanced *)

\* the objects of a Document AI response, with the attributes the parser
\* reads
FieldLabel(name, confidence) ==
    [t |-> "FieldLabel", name |-> name, confidence |-> confidence]
ValueString(text, value) == [t |-> "ValueString", text |-> text, value |-> value]
ValueArray(its) == [t |-> "ValueArray", text |-> None, items |-> List(its)]
DocumentField(field_label, field_value) ==
    [t |-> "DocumentField", field_label |-> field_label,
     field_value |-> field_value]
Page(document_fields) == [t |-> "Page", document_fields |-> document_fields]
DetectedDocumentType(confidence) ==
    [t |-> "DetectedDocumentType", confidence |-> confidence]
AnalyzeDocumentResult(pages, detected_document_types) ==
    [t |-> "AnalyzeDocumentResult", pages |-> pages,
     detected_document_types |-> detected_document_types]
Response(data) == [t |-> "Response", data |-> data]

\* HTTPException(status_code=..., detail=...)
HTTPException(status_code, detail) ==
    [raised |-> "HTTPException", status_code |-> status_code,
     detail |-> detail, value |-> None]

\* the document-type confidence below which a document is refused, in
\* hundredths
MinConfidence == 90
MoneyFields == {"InvoiceTotal", "SubTotal", "ShippingCost", "Amount",
                "UnitPrice", "AmountDue"}
ItemMoneyFields == {"Quantity", "UnitPrice", "Amount"}

\* label.name if label and hasattr(label, 'name') and label.name else default
NameOf(field_label, default) ==
    IF Truthy(field_label) /\ HasAttr(field_label, "name")
           /\ Truthy(field_label.name)
    THEN field_label.name
    ELSE default
\* a read that prefers the typed value to the text
TextOrValuePreferringValue(field_value, default) ==
    IF ~Truthy(field_value) THEN default
    ELSE IF HasAttr(field_value, "value") /\ field_value.value # None
    THEN field_value.value
    ELSE IF HasAttr(field_value, "text") /\ Truthy(field_value.text)
    THEN field_value.text
    ELSE default
\* the .text of a field value if it is true, else its .value if that is not
\* None, else default
TextOrValue(field_value, default) ==
    IF ~Truthy(field_value) THEN default
    ELSE IF HasAttr(field_value, "text") /\ Truthy(field_value.text)
    THEN field_value.text
    ELSE IF HasAttr(field_value, "value") /\ field_value.value # None
    THEN field_value.value
    ELSE default

\* single_item after the loop over the sub-fields of one entry of Items
RECURSIVE SingleItem(_, _)
SingleItem(single_item, subs) ==
    IF subs = <<>> THEN single_item
    ELSE IF ~Truthy(Head(subs)) THEN SingleItem(single_item, Tail(subs))
    ELSE Let(NameOf(Head(subs).field_label, Key("")),
             LAMBDA sub_key :
                 IF ~Truthy(sub_key) THEN SingleItem(single_item, Tail(subs))
                 ELSE Let(Put(single_item, sub_key.k,
                              IF sub_key.k \in ItemMoneyFields
                              THEN amount_format(
                                       TextOrValue(Head(subs).field_value,
                                                   Str(<<>>)))
                              ELSE TextOrValue(Head(subs).field_value,
                                               Str(<<>>))),
                          LAMBDA item : SingleItem(item, Tail(subs))))

\* extracted_items after the loop over the entries of an Items field
RECURSIVE ExtractedItems(_)
ExtractedItems(sub_fields) ==
    IF sub_fields = <<>> THEN <<>>
    ELSE LET sub_field == Head(sub_fields)
         IN IF \/ ~Truthy(sub_field)
               \/ ~HasAttr(sub_field, "field_value")
               \/ ~Truthy(sub_field.field_value)
            THEN ExtractedItems(Tail(sub_fields))
            ELSE IF ~HasAttr(sub_field.field_value, "items")
            THEN ExtractedItems(Tail(sub_fields))
            ELSE <<SingleItem(EmptyDict, sub_field.field_value.items.v)>>
                     \o ExtractedItems(Tail(sub_fields))

\* field.field_label.confidence if it is there and not None, else 0.0
ConfidenceOf(field_label) ==
    IF Truthy(field_label) /\ HasAttr(field_label, "confidence")
           /\ field_label.confidence # None
    THEN field_label.confidence
    ELSE Num(0)

\* the end of the loop body for a field with a name: field_value is the
\* value read and formatted; an Items field with an array replaces it by
\* the extracted items; data and data_confidence take the results
StoreField(acc, field, field_name, field_value) ==
    LET is_items == /\ field_name = "Items"
                    /\ Truthy(field.field_value)
                    /\ HasAttr(field.field_value, "items")
    IN IF is_items /\ field.field_value.items.t # "list"
       THEN [acc EXCEPT !.raised = "TypeError"]
       ELSE [raised |-> "",
             data |-> Put(acc.data, field_name,
                          IF is_items
                          THEN List(ExtractedItems(field.field_value.items.v))
                          ELSE field_value),
             data_confidence |->
                 IF field_name # "Items"
                 THEN Put(acc.data_confidence, field_name,
                          ConfidenceOf(field.field_label))
                 ELSE acc.data_confidence]

\* the value of a named field once read: the date formatted, then the
\* amount formatted
Formatted(field_name, read) ==
    Let(IF field_name = "InvoiceDate" THEN format_date(read) ELSE Returns(read),
        LAMBDA dated :
            IF dated.raised # "" THEN dated
            ELSE IF field_name \in MoneyFields
            THEN Returns(amount_format(dated.value))
            ELSE dated)

\* the body of the loop over page.document_fields: data, data_confidence
\* and the exception raised so far, after one more field
ProcessField(acc, field) ==
    IF acc.raised # "" THEN acc
    ELSE Let(NameOf(field.field_label, None),
             LAMBDA field_name :
                 IF field_name = None THEN acc
                 ELSE Let(Formatted(field_name.k,
                                    TextOrValue(field.field_value, None)),
                          LAMBDA formatted :
                              IF formatted.raised # ""
                              THEN [acc EXCEPT !.raised = formatted.raised]
                              ELSE StoreField(acc, field, field_name.k,
                                              formatted.value)))

RECURSIVE ProcessFields(_, _)
ProcessFields(acc, fields) ==
    IF fields = <<>> THEN acc
    ELSE Let(ProcessField(acc, Head(fields)),
             LAMBDA next : ProcessFields(next, Tail(fields)))
\* the loop over the pages: a page without fields is passed over
RECURSIVE ProcessPages(_, _)
ProcessPages(acc, pages) ==
    IF pages = <<>> THEN acc
    ELSE LET page == Head(pages)
         IN IF Truthy(page) /\ HasAttr(page, "document_fields")
                   /\ Truthy(page.document_fields)
            THEN Let(ProcessFields(acc, page.document_fields.v),
                     LAMBDA next : ProcessPages(next, Tail(pages)))
            ELSE ProcessPages(acc, Tail(pages))

\* pages of the response, [] unless response.data.pages is there and true
PagesOf(response) ==
    IF Truthy(response) /\ HasAttr(response, "data") /\ Truthy(response.data)
           /\ HasAttr(response.data, "pages") /\ Truthy(response.data.pages)
    THEN response.data.pages.v
    ELSE <<>>
\* the detected document types the validation loops over
TypesOf(response) ==
    IF Truthy(response) /\ HasAttr(response, "data") /\ Truthy(response.data)
           /\ HasAttr(response.data, "detected_document_types")
           /\ Truthy(response.data.detected_document_types)
    THEN response.data.detected_document_types.v
    ELSE <<>>

\* "if confidence and confidence < 0.9": the test that refuses a document
Refused(confidence) == Truthy(confidence) /\ confidence.n < MinConfidence

\* the validation loop: the confidence it ends with and whether it raised,
\* starting from the confidence held so far
RECURSIVE Validate(_, _)
Validate(confidence, doc_types) ==
    IF doc_types = <<>> THEN [confidence |-> confidence, refused |-> FALSE]
    ELSE LET doc_type == Head(doc_types)
         IN IF Truthy(doc_type) /\ HasAttr(doc_type, "confidence")
            THEN IF Refused(doc_type.confidence)
                 THEN [confidence |-> doc_type.confidence, refused |-> TRUE]
                 ELSE Validate(doc_type.confidence, Tail(doc_types))
            ELSE Validate(confidence, Tail(doc_types))

\* the client object, once oci.config.from_file() has succeeded
Client == [t |-> "AIServiceDocumentClient"]
\* a get_doc_client that loads the configuration on every call
get_doc_client_reloading(config_loads) ==
    IF config_loads THEN Client ELSE None
\* get_doc_client(): the module's doc_client, initialised on the way when it
\* is None and the configuration loads
get_doc_client(config_loads) ==
    IF doc_client # None THEN doc_client
    ELSE IF config_loads THEN Client
    ELSE None

\* the part of parse_invoice_from_pdf_enhanced after the call of the
\* service: the pages are read, the document is validated, the result is
\* returned
Interpreted(response) ==
    Let(ProcessPages([raised |-> "", data |-> EmptyDict,
                      data_confidence |-> EmptyDict],
                     PagesOf(response)),
        LAMBDA acc :
            IF acc.raised # "" THEN Raises(acc.raised)
            ELSE Let(Validate(None, TypesOf(response)),
                     LAMBDA checked :
                         IF checked.refused
                         THEN HTTPException(400, "Invalid document. Please upload a valid PDF invoice with high confidence.")
                         ELSE Returns([confidence |-> checked.confidence,
                                       data |-> acc.data,
                                       dataConfidence |->
                                           acc.data_confidence])))

\* a parser that calls the service outside any try block
parse_invoice_from_pdf_enhanced_unguarded(client, pdf_bytes, analysis) ==
    IF client = None
    THEN HTTPException(503, "OCI configuration error: Document AI client not configured")
    ELSE IF pdf_bytes = <<>>
    THEN HTTPException(400, "Invalid document. Please upload a valid PDF invoice.")
    ELSE IF analysis.raised # ""
    THEN Raises(analysis.raised)
    ELSE Interpreted(analysis.value)
\* parse_invoice_from_pdf_enhanced(pdf_bytes), given the client it got and
\* what client.analyze_document does (it raises or returns a response)
parse_invoice_from_pdf_enhanced(client, pdf_bytes, analysis) ==
    IF client = None
    THEN HTTPException(503, "OCI configuration error: Document AI client not configured")
    ELSE IF pdf_bytes = <<>>
    THEN HTTPException(400, "Invalid document. Please upload a valid PDF invoice.")
    ELSE IF analysis.raised # ""
    THEN HTTPException(503, "The service is currently unavailable. Please try again later.")
    ELSE Interpreted(analysis.value)

\* a parser that calls the service a second time when the first call raised
analyze_document_calls_retrying(client, pdf_bytes, analysis) ==
    IF client = None \/ pdf_bytes = <<>> THEN 0
    ELSE IF analysis.raised # "" THEN 2
    ELSE 1
\* the calls of client.analyze_document one call of the parser makes: none
\* before the client and the bytes are there, then the one of the try block
analyze_document_calls(client, pdf_bytes, analysis) ==
    IF client = None THEN 0
    ELSE IF pdf_bytes = <<>> THEN 0
    ELSE 1

----------------------------------------------------------------------------
(* app.py: POST /extract *)

\* an UploadFile: content type, file name and bytes
File(content_type, filename, content) ==
    [content_type |-> content_type, filename |-> filename, content |-> content]
\* the uploads: PDFs by type, by name in upper case and by both, one of them
\* empty, and files that are PDFs by neither
Files ==
    {File("application/pdf", None, <<37>>),
     File("application/pdf", Str(<<"a", ".", "p", "d", "f">>), <<>>),
     File("text/plain", Str(<<"A", ".", "P", "D", "F">>), <<37>>),
     File("text/plain", None, <<37>>),
     File("text/plain", Str(<<>>), <<37>>),
     File("text/plain", Str(<<"a", ".", "t", "x", "t">>), <<37>>),
     File("text/plain", Str(<<"p", "d", "f">>), <<37>>)}

\* a field with a label and a text
TextField(name, confidence, text) ==
    DocumentField(FieldLabel(Key(name), Num(confidence)),
                  ValueString(Str(text), None))
\* the Items field of the sample documents: one line
LineField ==
    DocumentField(
        FieldLabel(Key("Items"), None),
        ValueArray(<<DocumentField(
            None,
            ValueArray(<<TextField("Name", 90, <<"P", "1">>),
                         TextField("Quantity", 90, <<"3">>),
                         TextField("UnitPrice", 90, <<"$", "1", "7", ".", "9", "4">>),
                         TextField("Amount", 90, <<"$", "5", "3", ".", "8", "2">>)
                       >>))>>))
\* the fields of a sample document besides its InvoiceId
CommonFields ==
    <<TextField("VendorName", 94, <<"S">>),
      TextField("InvoiceDate", 99,
                <<"M", "a", "r", " ", "0", "6", " ", "2", "0", "1", "2">>),
      TextField("InvoiceTotal", 95, <<"$", "5", "8", ".", "1", "1">>),
      LineField>>
Document(fields, doc_types) ==
    Response(AnalyzeDocumentResult(List(<<Page(List(fields))>>), List(doc_types)))

\* the confidences of the detected document types of the sample documents
TypeConfidences == {Num(0), Num(50), Num(90)}
TypeLists ==
    UNION {[1..n -> {DetectedDocumentType(c) : c \in TypeConfidences}] :
               n \in 0..MaxTypes}

\* what client.analyze_document does: it raises, or it returns a document
\* with an InvoiceId and any list of types, one without InvoiceId, one whose
\* InvoiceDate is a number, one without pages
Analyses ==
    {Raises("ServiceError")}
    \cup {Returns(Document(<<TextField("InvoiceId", 97, id.s)>> \o CommonFields,
                           doc_types)) :
              id \in InvoiceIds, doc_types \in TypeLists}
    \cup {Returns(Document(CommonFields, <<>>)),
          Returns(Document(<<DocumentField(FieldLabel(Key("InvoiceDate"), None),
                                           ValueString(None, Num(2012)))>>,
                           <<>>)),
          Returns(Response(AnalyzeDocumentResult(None, None)))}

\* the confidences of the document types of an analysis (none if it raised)
ConfidencesOf(analysis) ==
    IF analysis.raised # "" THEN <<>>
    ELSE LET doc_types == TypesOf(analysis.value)
         IN [k \in 1..Len(doc_types) |-> doc_types[k].confidence]

\* an upload check that lets every file through
IsPdfWhatever(file) == TRUE
\* pdf_type or pdf_filename
IsPdf(file) ==
    LET pdf_type == file.content_type = "application/pdf"
        pdf_filename == IF Truthy(file.filename)
                        THEN EndsWith(Lower(file.filename.s),
                                      <<".", "p", "d", "f">>)
                        ELSE FALSE
    IN pdf_type \/ pdf_filename

\* the loop "for it in data['data'].get('Items', [])" runs: over a list, or
\* over the empty str; any other value raises in it
ItemsIterable(extracted_data) ==
    LET its == GetD(extracted_data.data, "Items", List(<<>>))
    IN its.t = "list" \/ (its.t = "str" /\ Len(its.s) = 0)
\* the extraction result as save_invoice_extraction reads it: its Items as
\* the sequence the loop runs over
AsSaved(extracted_data) ==
    LET its == extracted_data.data["Items"]
    IN IF "Items" \in DOMAIN extracted_data.data
       THEN [extracted_data EXCEPT
                !.data = WithItems(extracted_data.data,
                                   IF its.t = "list" THEN its.v ELSE <<>>)]
       ELSE extracted_data

\* what left a call made by the request: nothing (it returned), an
\* exception with its status code if it is an HTTPException, or the call
\* was not made
Left(call) ==
    [raised |-> call.raised,
     status_code |-> IF call.raised = "HTTPException" THEN call.status_code
                     ELSE 0]
Skipped == [raised |-> "not called", status_code |-> 0]

\* what a request leaves: its response, the calls of the parser it made,
\* the extraction result it got (None without one), what left the parser
\* and the save, the module's doc_client and the tables
Outcome(response, parse_calls, extracted, parser, save, client, tables) ==
    [response |-> response, parse_calls |-> parse_calls,
     extracted |-> extracted, parser |-> parser, save |-> save,
     doc_client |-> client,
     invoices |-> tables.invoices, items |-> tables.items,
     confidences |-> tables.confidences]
Tables == [invoices |-> invoices, items |-> items, confidences |-> confidences]

\* a save whose failure is not reported: the request answers 200 whatever
\* the commit did
SaveExtractedQuietly(extracted_data, client) ==
    IF ~ItemsIterable(extracted_data)
    THEN Outcome([status |-> 200, body |-> extracted_data],
                 1, extracted_data, Left(Returns(extracted_data)),
                 Left(Raises("TypeError")), client, Tables)
    ELSE Let(save_invoice_extraction(AsSaved(extracted_data)),
             LAMBDA saved :
                 Outcome([status |-> 200, body |-> extracted_data],
                         1, extracted_data, Left(Returns(extracted_data)),
                         Left(saved), client, saved))
\* the second try block of extract: save_inv_extraction and db.commit(),
\* or db.rollback() and a 500
SaveExtracted(extracted_data, client) ==
    IF ~ItemsIterable(extracted_data)
    THEN Outcome([status |-> 500, detail |-> <<"Database error: ", "TypeError">>],
                 1, extracted_data, Left(Returns(extracted_data)),
                 Left(Raises("TypeError")), client, Tables)
    ELSE Let(save_invoice_extraction(AsSaved(extracted_data)),
             LAMBDA saved :
                 IF saved.raised # ""
                 THEN Outcome([status |-> 500,
                               detail |-> <<"Database error: ", saved.raised>>],
                              1, extracted_data,
                              Left(Returns(extracted_data)), Left(saved),
                              client, Tables)
                 ELSE Outcome([status |-> 200, body |-> extracted_data],
                              1, extracted_data,
                              Left(Returns(extracted_data)), Left(saved),
                              client, saved))

\* extract(file), given whether the configuration loads and what the
\* service does in this request
extract(file, config_loads, analysis) ==
    IF ~IsPdf(file)
    THEN Outcome([status |-> 400, detail |-> "Invalid document. Please upload a valid PDF invoice with high confidence."],
                 0, None, Skipped, Skipped, doc_client, Tables)
    ELSE Let(get_doc_client(config_loads),
             LAMBDA client :
                 Let(parse_invoice_from_pdf_enhanced(client, file.content,
                                                     analysis),
                     LAMBDA parsed :
                         IF parsed.raised = "HTTPException"
                         THEN Outcome([status |-> parsed.status_code,
                                       detail |-> parsed.detail],
                                      1, None, Left(parsed), Skipped, client,
                                      Tables)
                         ELSE IF parsed.raised # ""
                         THEN Outcome([status |-> 500,
                                       detail |-> <<"Error parsing invoice: ",
                                                    parsed.raised>>],
                                      1, None, Left(parsed), Skipped, client,
                                      Tables)
                         ELSE SaveExtracted(parsed.value, client)))

\* POST /extract: last records the upload and its bytes, what the service
\* does when called, the response and whether it is
\* the extraction result, what left the parser and the save, the number of
\* calls of the parser, whether a document came back from the service and
\* the confidences of its types, and the InvoiceId extracted
Extract ==
    \E file \in Files, config_loads \in BOOLEAN, analysis \in Analyses :
        \E out \in {extract(file, config_loads, analysis)} :
            LET analysed == /\ out.parse_calls = 1
                            /\ out.doc_client # None
                            /\ file.content # <<>>
                            /\ analysis.raised = ""
            IN /\ out.response.status = 200 =>
                      IdsAvailable(Len(GetD(AsSaved(out.extracted).data,
                                             "Items", <<>>)))
               /\ invoices' = out.invoices
               /\ items' = out.items
               /\ confidences' = out.confidences
               /\ doc_client' = out.doc_client
               /\ last' = [op |-> "POST /extract",
                           arg |-> [content_type |-> file.content_type,
                                    filename |-> file.filename],
                           pdf_bytes |-> file.content,
                           service |-> analysis.raised,
                           response |-> [status |-> out.response.status],
                           returned |-> out.response.status = 200
                                            /\ out.response.body = out.extracted,
                           parser |-> out.parser,
                           save |-> out.save,
                           parse_calls |-> out.parse_calls,
                           init_doc_client |->
                               IF out.parse_calls = 0 \/ doc_client # None
                               THEN "not attempted"
                               ELSE IF config_loads THEN "succeeded"
                               ELSE "failed",
                           service_calls |->
                               out.parse_calls
                                   * analyze_document_calls(out.doc_client,
                                                            file.content,
                                                            analysis),
                           analysed |-> analysed,
                           confidences |->
                               IF analysed THEN ConfidencesOf(analysis)
                               ELSE <<>>,
                           invoice_id |->
                               IF out.extracted = None THEN None
                               ELSE Get(out.extracted.data, "InvoiceId")]
               /\ UNCHANGED <<storage, erp_calls, requests>>

----------------------------------------------------------------------------
(* src/app: the in-memory StorageService and POST /api/invoices/upload     *)

\* the ids the controller gives to the invoices it creates
IdNames == <<"id1", "id2", "id3", "id4">>
UploadIds == {IdNames[k] : k \in 1..MaxStored}
\* the id of the next invoice: one that no stored invoice has
NewId == CHOOSE id \in UploadIds \ DOMAIN storage :
             \A other \in UploadIds \ DOMAIN storage :
                 \E i, j \in DOMAIN IdNames :
                     IdNames[i] = id /\ IdNames[j] = other /\ i <= j

\* StorageService.save: self._invoices[invoice.id] = invoice
StorageService_save(store, invoice) == Put(store, invoice.id, invoice)
\* StorageService.get: the invoice, or InvoiceNotFoundError
StorageService_get(store, invoice_id) ==
    IF invoice_id \notin DOMAIN store THEN Raises("InvoiceNotFoundError")
    ELSE Returns(store[invoice_id])
\* StorageService.update: get, then setattr for every key of updates
StorageService_update(store, invoice_id, updates) ==
    IF StorageService_get(store, invoice_id).raised # ""
    THEN [raised |-> "InvoiceNotFoundError", value |-> None, store |-> store]
    ELSE LET invoice == [f \in DOMAIN store[invoice_id] \cup DOMAIN updates |->
                            IF f \in DOMAIN updates THEN updates[f]
                            ELSE store[invoice_id][f]]
         IN [raised |-> "", value |-> invoice,
             store |-> Put(store, invoice_id, invoice)]
\* a delete that answers True for an id that is not stored
StorageService_delete_quietly(store, invoice_id) ==
    [raised |-> "", value |-> True,
     store |-> [k \in DOMAIN store \ {invoice_id} |-> store[k]]]
\* StorageService.delete: del self._invoices[invoice_id], or
\* InvoiceNotFoundError
StorageService_delete(store, invoice_id) ==
    IF invoice_id \notin DOMAIN store
    THEN [raised |-> "InvoiceNotFoundError", value |-> None, store |-> store]
    ELSE [raised |-> "", value |-> True,
          store |-> [k \in DOMAIN store \ {invoice_id} |-> store[k]]]

\* Config.validate_erpnext_config()
Placeholder == "https://your-instance.erpnext.com"
validate_erpnext_config(cls) ==
    /\ cls.ERPNEXT_BASE_URL # ""
    /\ cls.ERPNEXT_API_KEY # ""
    /\ cls.ERPNEXT_API_SECRET # ""
    /\ cls.ERPNEXT_BASE_URL # Placeholder
\* Config(ERPNEXT_BASE_URL, ERPNEXT_API_KEY, ERPNEXT_API_SECRET)
Config(base_url, api_key, api_secret) ==
    [ERPNEXT_BASE_URL |-> base_url, ERPNEXT_API_KEY |-> api_key,
     ERPNEXT_API_SECRET |-> api_secret]
\* the configurations of the environment: the defaults with and without
\* credentials, one with each setting missing, a complete one
Configs ==
    {Config(Placeholder, "", ""),
     Config(Placeholder, "key", "secret"),
     Config("", "key", "secret"),
     Config("https://erp.example.com", "", "secret"),
     Config("https://erp.example.com", "key", ""),
     Config("https://erp.example.com", "key", "secret")}

\* what the collaborators of one upload do: ParserService.parse, the
\* anomaly analysis and ERPNextClient.create_purchase_invoice
ParseOutcomes ==
    {Returns([vendor_name |-> "S", total_amount |-> 5811]),
     Raises("ParsingError"), Raises("Exception")}
AnalysisOutcomes ==
    {Returns([risk_score |-> 80, explanation |-> "total above the average"]),
     Raises("Exception")}
ErpOutcomes ==
    {Returns([data |-> [name |-> "PINV-1"]]), Raises("Exception")}

\* InvoiceController.upload_and_parse_invoice: the parsed file becomes an
\* invoice with a new id and is saved
upload_and_parse_invoice(store, filename, parse) ==
    IF parse.raised # ""
    THEN [raised |-> parse.raised, value |-> None, store |-> store]
    ELSE LET invoice == [id |-> NewId, filename |-> filename,
                         parsed_data |-> parse.value,
                         risk_score |-> None, risk_explanation |-> None]
         IN [raised |-> "", value |-> invoice,
             store |-> StorageService_save(store, invoice)]
\* AnomalyController.analyze_invoice: the analysis result is written to the
\* stored invoice
analyze_invoice(store, invoice_id, analysis) ==
    IF StorageService_get(store, invoice_id).raised # ""
    THEN [raised |-> "InvoiceNotFoundError", value |-> None, store |-> store]
    ELSE IF analysis.raised # ""
    THEN [raised |-> analysis.raised, value |-> None, store |-> store]
    ELSE StorageService_update(
             store, invoice_id,
             [risk_score |-> Num(analysis.value.risk_score),
              risk_explanation |-> Str(<<analysis.value.explanation>>)])

\* a sync whose failure leaves the request
erpnext_sync_surfacing(sync_to_erpnext, cls, erp) ==
    IF sync_to_erpnext /\ validate_erpnext_config(cls)
    THEN [calls |-> 1, raised |-> erp.raised]
    ELSE [calls |-> 0, raised |-> ""]
\* a sync that does not validate the configuration
erpnext_sync_unvalidated(sync_to_erpnext, cls, erp) ==
    IF sync_to_erpnext
    THEN [calls |-> 1, raised |-> ""]
    ELSE [calls |-> 0, raised |-> ""]
\* "if sync_to_erpnext:" of upload_invoice: the calls of
\* create_purchase_invoice made and the exception that leaves the block
erpnext_sync(sync_to_erpnext, cls, erp) ==
    IF sync_to_erpnext
    THEN IF validate_erpnext_config(cls)
         THEN [calls |-> 1, raised |-> ""]
         ELSE [calls |-> 0, raised |-> ""]
    ELSE [calls |-> 0, raised |-> ""]

\* the calls upload_invoice makes, in the order of its statements: the
\* parse and the save of upload_and_parse_invoice, the analysis in its try
\* block, then create_purchase_invoice
upload_calls(stored, synced) ==
    IF ~stored THEN <<"parse">>
    ELSE <<"parse", "save", "analyze_invoice">>
             \o (IF synced = 1 THEN <<"create_purchase_invoice">>
                 ELSE <<>>)
\* risk_score as create_purchase_invoice receives it: None unless the
\* analysis returned
risk_score_of(analysed) ==
    IF analysed.raised = "" THEN analysed.value.risk_score ELSE None

\* upload_invoice(file, sync_to_erpnext): the response, the store and the
\* calls of the ERP made
upload_invoice(filename, sync_to_erpnext, cls, parse, analysis, erp) ==
    LET uploaded == upload_and_parse_invoice(
                        storage,
                        IF Truthy(filename) THEN filename
                        ELSE Str(<<"u", "n", "k", "n", "o", "w", "n">>),
                        parse)
        analysed == analyze_invoice(uploaded.store, uploaded.value.id, analysis)
        invoice == IF analysed.raised = "" THEN analysed.value
                   ELSE uploaded.value
        synced == erpnext_sync(sync_to_erpnext, cls, erp)
    IN IF uploaded.raised = "ParsingError"
       THEN [response |-> [status |-> 400, detail |-> uploaded.raised],
             store |-> storage, calls |-> 0,
             risk_score |-> None]
       ELSE IF uploaded.raised # ""
       THEN [response |-> [status |-> 500,
                           detail |-> <<"Failed to process invoice: ",
                                        uploaded.raised>>],
             store |-> storage, calls |-> 0,
             risk_score |-> None]
       ELSE IF synced.raised # ""
       THEN [response |-> [status |-> 500,
                           detail |-> <<"Failed to process invoice: ",
                                        synced.raised>>],
             store |-> analysed.store, calls |-> synced.calls,
             risk_score |-> risk_score_of(analysed)]
       ELSE [response |-> [status |-> 201, body |-> invoice],
             store |-> analysed.store, calls |-> synced.calls,
             risk_score |-> risk_score_of(analysed)]

\* GET /api/invoices/{invoice_id}
api_get_invoice(invoice_id) ==
    LET got == StorageService_get(storage, invoice_id)
    IN IF got.raised = "InvoiceNotFoundError"
       THEN [status |-> 404, detail |-> got.raised]
       ELSE [status |-> 200, body |-> got.value]
\* DELETE /api/invoices/{invoice_id}
api_delete_invoice(invoice_id) ==
    LET deleted == StorageService_delete(storage, invoice_id)
    IN [response |-> IF deleted.raised = "InvoiceNotFoundError"
                     THEN [status |-> 404, detail |-> deleted.raised]
                     ELSE [status |-> 200, body |-> [deleted |-> TRUE]],
        store |-> deleted.store]

\* the file names of the uploads
Filenames == {None, Str(<<"a", ".", "p", "d", "f">>)}
\* the most calls of the ERP the model follows
MaxErpCalls == 2

\* a collaborator the request did not call
NotCalled == Raises("not called")

\* POST /api/invoices/upload: last records the request, the response and
\* what the request saw: the configuration it validated and the outcome of
\* every collaborator it called
UploadInvoice ==
    \E filename \in Filenames, sync_to_erpnext \in BOOLEAN, cls \in Configs,
       parse \in ParseOutcomes, analysis \in AnalysisOutcomes,
       erp \in ErpOutcomes :
        /\ parse.raised = "" => DOMAIN storage # UploadIds
        /\ LET out == upload_invoice(filename, sync_to_erpnext, cls, parse,
                                     analysis, erp)
               stored == parse.raised = ""
           IN /\ erp_calls + out.calls <= MaxErpCalls
              /\ storage' = out.store
              /\ erp_calls' = erp_calls + out.calls
              /\ last' = [op |-> "POST /api/invoices/upload",
                          arg |-> [filename |-> filename,
                                   sync_to_erpnext |-> sync_to_erpnext],
                          cls |-> IF stored /\ sync_to_erpnext THEN cls
                                  ELSE None,
                          parse |-> parse,
                          analysis |-> IF stored THEN analysis ELSE NotCalled,
                          erp |-> IF out.calls = 1 THEN erp ELSE NotCalled,
                          calls |-> out.calls,
                          trace |-> upload_calls(stored, out.calls),
                          risk_score |->
                              IF out.calls = 1 THEN out.risk_score ELSE None,
                          response |-> out.response]
        /\ UNCHANGED <<invoices, items, confidences, doc_client, requests>>

ApiGetInvoice ==
    \E invoice_id \in UploadIds :
        /\ last' = [op |-> "GET /api/invoices/{invoice_id}", arg |-> invoice_id,
                    response |-> api_get_invoice(invoice_id)]
        /\ UNCHANGED <<invoices, items, confidences, doc_client, storage,
                       erp_calls,
                       requests>>

ApiDeleteInvoice ==
    \E invoice_id \in UploadIds :
        /\ storage' = api_delete_invoice(invoice_id).store
        /\ last' = [op |-> "DELETE /api/invoices/{invoice_id}",
                    arg |-> invoice_id,
                    response |-> api_delete_invoice(invoice_id).response]
        /\ UNCHANGED <<invoices, items, confidences, doc_client, erp_calls, requests>>

----------------------------------------------------------------------------
(* Specification of the store under the queries.py operations and the     *)
(* read endpoints                                                          *)

Init ==
    /\ invoices = {}
    /\ items = {}
    /\ confidences = {}
    /\ last = [op |-> "init"]
    /\ storage = EmptyDict
    /\ erp_calls = 0
    /\ doc_client = None
    /\ requests = EmptyDict

Next ==
    \/ SaveInvoiceExtraction
    \/ UpdateInvoice
    \/ DeleteInvoice
    \/ CreateItem
    \/ UpdateItem
    \/ DeleteItem
    \/ CreateConfidence
    \/ UpdateConfidence
    \/ DeleteConfidence
    \/ GetInvoiceById
    \/ InvoicesByVendor
    \/ InvoicesByVendorAseel

Spec == Init /\ [][Next]_vars

\* the application of app.py: its three endpoints
NextApp ==
    \/ Extract
    \/ GetInvoiceById
    \/ InvoicesByVendor

SpecApp == Init /\ [][NextApp]_vars

\* the application of src/app: the upload, the read and the delete of its
\* router
NextUpload ==
    \/ UploadInvoice
    \/ ApiGetInvoice
    \/ ApiDeleteInvoice

SpecUpload == Init /\ [][NextUpload]_vars

\* saves, and reads of what they stored
NextSave ==
    \/ SaveInvoiceExtraction
    \/ GetInvoiceById

SpecSave == Init /\ [][NextSave]_vars

\* the two requests that call an external service: POST /extract of app.py
\* and POST /api/invoices/upload of src/app.  The two applications are
\* separate programs: a behaviour is the requests of one of them.
NextCalls ==
    \/ last.op \in {"init", "POST /extract"} /\ Extract
    \/ last.op \in {"init", "POST /api/invoices/upload"} /\ UploadInvoice

SpecCalls == Init /\ [][NextCalls]_vars

----------------------------------------------------------------------------
(* The formatting functions on their own: an input is drawn, then one of   *)
(* the two functions is called with it                                     *)

\* the strings of at most MaxLen characters over the characters an amount
\* is written with, a blank and a letter
AmountChars == {"$", ",", ".", "1", "0", " ", "x", "-"}
ShortStrings == UNION {[1..n -> AmountChars] : n \in 0..MaxLen}
\* amounts as the documents spell them
AmountSamples ==
    {<<"$", "5", "8", ".", "1", "1">>,
     <<"4", ",", "2", "9", "3", ".", "5", "5">>,
     <<" ", "$", "1", ",", "0", "0", "0", " ">>,
     <<"1", "7", ".", "9", "4", " ", "U", "S", "D">>,
     <<"1", ".", "2", ".", "3">>}
\* dates: a month word, a day and a year with one blank between them, the
\* same with blanks around and doubled, and texts with a part missing
MonthWords == {<<"M", "a", "r">>, <<"F", "e", "b">>, <<"d", "E", "C">>,
               <<"M", "a", "r", "c", "h">>}
DayWords == {<<"0", "6">>, <<"6">>, <<"2", "9">>, <<"3", "0">>, <<"3", "1">>,
             <<"0", "0">>, <<"0", "0", "6">>}
YearWords == {<<"2", "0", "1", "2">>, <<"2", "0", "1", "1">>,
              <<"0", "0", "0", "0">>, <<"1", "2">>}
DateSamples ==
    {m \o <<" ">> \o d \o <<" ">> \o y :
         m \in MonthWords, d \in DayWords, y \in YearWords}
    \cup {<<" ">> \o m \o <<" ", " ">> \o <<"6">> \o <<" ">> \o y \o <<" ">> :
              m \in MonthWords, y \in YearWords}
    \cup {<<"2", "0", "1", "2", "-", "0", "3", "-", "0", "6">>,
          <<"M", "a", "r", " ", "0", "6">>,
          <<"M", "a", "r", "0", "6", " ", "2", "0", "1", "2">>,
          <<"M", "a", "r", " ", "0", "6", " ", "2", "0", "1", "2", " ", "x">>}
\* the values the functions are called with: strings, None, numbers (the
\* typed value of a field), lists
FormatInputs ==
    {Str(cs) : cs \in ShortStrings \cup AmountSamples \cup DateSamples}
    \cup {None, Num(0), Num(5811), List(<<>>), List(<<Num(1)>>)}

InitFormat ==
    /\ invoices = {}
    /\ items = {}
    /\ confidences = {}
    /\ last \in {[op |-> "input", arg |-> v] : v \in FormatInputs}
    /\ storage = EmptyDict
    /\ erp_calls = 0
    /\ doc_client = None
    /\ requests = EmptyDict

\* a call of a formatting function: last records it, what it returned and
\* what it raised
Formats(op, result) ==
    /\ last.op = "input"
    /\ last' = [op |-> op, arg |-> last.arg, ret |-> result.value,
                raised |-> result.raised]
    /\ UNCHANGED <<invoices, items, confidences, storage, erp_calls,
                   doc_client,
                   requests>>

AmountFormat == Formats("amount_format", Returns(amount_format(last.arg)))
FormatDate == Formats("format_date", format_date(last.arg))

NextFormat ==
    \/ AmountFormat
    \/ FormatDate

SpecFormat == InitFormat /\ [][NextFormat]_vars

\* update_invoice on the stores that saves, item inserts and confidence
\* deletes leave
NextUpdate ==
    \/ SaveInvoiceExtraction
    \/ UpdateInvoiceMore
    \/ CreateItem
    \/ DeleteConfidence
SpecUpdate == Init /\ [][NextUpdate]_vars

----------------------------------------------------------------------------
(* The interpretation of a response on its own: a document is drawn, then *)
(* the part of the parser after the call of the service reads it          *)

\* a field with a label, a text and a typed value (None where it has none)
Field(name, confidence, text, value) ==
    DocumentField(FieldLabel(Key(name), confidence), ValueString(text, value))
\* top-level fields: with text and value, with one of them, with an empty
\* text, with neither, without a value object, without a label, with a
\* label without confidence; a money field and a date among them
ScalarFields ==
    {Field("VendorName", Num(94), Str(<<"S">>), Str(<<"T">>)),
     Field("VendorName", Num(50), None, Str(<<"T">>)),
     Field("VendorName", None, Str(<<>>), Num(7)),
     Field("ShippingAddress", Num(97), None, None),
     Field("InvoiceTotal", Num(95), Str(<<"$", "5", "8", ".", "1", "1">>),
           Num(100)),
     Field("InvoiceTotal", Num(95), None, Num(5811)),
     Field("InvoiceDate", Num(99),
           Str(<<"M", "a", "r", " ", "0", "6", " ", "2", "0", "1", "2">>),
           None),
     DocumentField(FieldLabel(Key("SubTotal"), Num(90)), None),
     DocumentField(None, ValueString(Str(<<"x">>), None))}
\* a line-item group: a field whose value is the array of its sub-fields
Group(subs) == DocumentField(None, ValueArray(subs))
\* Items fields: one of two groups (sub-fields with text and value, with
\* a value only, with neither, a money sub-field, a sub-field without a
\* label, a name given twice) and one of no group
ItemsFields ==
    {DocumentField(
         FieldLabel(Key("Items"), Num(90)),
         ValueArray(<<Group(<<Field("Name", Num(90), Str(<<"P", "1">>),
                                    Str(<<"Q">>)),
                              Field("Quantity", Num(90), None, Num(300)),
                              Field("Amount", Num(90),
                                    Str(<<"$", "5", "3", ".", "8", "2">>),
                                    Num(1))>>),
                      Group(<<Field("Name", Num(90), None, None),
                              DocumentField(None,
                                            ValueString(Str(<<"x">>), None)),
                              Field("Description", Num(90), Str(<<"D">>), None),
                              Field("Description", Num(90), None,
                                    Str(<<"E">>))>>)>>)),
     DocumentField(FieldLabel(Key("Items"), None), ValueArray(<<>>))}
\* the documents: at most MaxFields fields on one page
Documents ==
    UNION {[1..n -> ScalarFields \cup ItemsFields] : n \in 0..MaxFields}

InitParse ==
    /\ invoices = {}
    /\ items = {}
    /\ confidences = {}
    /\ last \in {[op |-> "document", arg |-> fields] : fields \in Documents}
    /\ storage = EmptyDict
    /\ erp_calls = 0
    /\ doc_client = None
    /\ requests = EmptyDict

\* the response is interpreted; last records the fields and the result
InterpretDocument ==
    /\ last.op = "document"
    /\ \E result \in {Interpreted(Document(last.arg, <<>>))} :
           last' = [op |-> "parse_invoice_from_pdf_enhanced", arg |-> last.arg,
                    ret |-> result.value, raised |-> result.raised]
    /\ UNCHANGED <<invoices, items, confidences, storage, erp_calls,
                   doc_client,
                   requests>>

SpecParse == InitParse /\ [][InterpretDocument]_vars

----------------------------------------------------------------------------
(* The in-memory StorageService under its own calls and the two endpoints *)
(* that read and delete by id                                              *)

\* the invoices handed to save
SavedInvoices ==
    {[id |-> id, filename |-> filename,
      parsed_data |-> [vendor_name |-> "S", total_amount |-> 5811],
      risk_score |-> None, risk_explanation |-> None] :
         id \in UploadIds, filename \in Filenames \ {None}}
\* the keyword arguments of update: the result of an analysis, a file name,
\* an id
StorageUpdates ==
    {[risk_score |-> Num(80),
      risk_explanation |-> Str(<<"total above the average">>)],
     [filename |-> Str(<<"b">>)]}
    \cup {[id |-> id] : id \in UploadIds}

StorageSave ==
    \E invoice \in SavedInvoices :
        /\ storage' = StorageService_save(storage, invoice)
        /\ last' = [op |-> "StorageService.save", arg |-> invoice.id,
                    stored |-> invoice.id \in DOMAIN storage,
                    raised |-> "", value |-> invoice]
        /\ UNCHANGED <<invoices, items, confidences, doc_client, erp_calls, requests>>
StorageGet ==
    \E invoice_id \in UploadIds :
        /\ last' = [op |-> "StorageService.get", arg |-> invoice_id,
                    raised |-> StorageService_get(storage, invoice_id).raised,
                    value |-> StorageService_get(storage, invoice_id).value]
        /\ UNCHANGED <<invoices, items, confidences, doc_client, storage,
                       erp_calls,
                       requests>>
StorageUpdate ==
    \E invoice_id \in UploadIds, updates \in StorageUpdates :
        \E out \in {StorageService_update(storage, invoice_id, updates)} :
            /\ storage' = out.store
            /\ last' = [op |-> "StorageService.update", arg |-> invoice_id,
                        raised |-> out.raised, value |-> out.value]
            /\ UNCHANGED <<invoices, items, confidences, doc_client,
                           erp_calls,
                           requests>>
StorageDelete ==
    \E invoice_id \in UploadIds :
        \E out \in {StorageService_delete(storage, invoice_id)} :
            /\ storage' = out.store
            /\ last' = [op |-> "StorageService.delete", arg |-> invoice_id,
                        stored |-> invoice_id \in DOMAIN storage,
                        raised |-> out.raised, value |-> out.value]
            /\ UNCHANGED <<invoices, items, confidences, doc_client,
                           erp_calls,
                           requests>>

NextStorage ==
    \/ StorageSave
    \/ StorageGet
    \/ StorageUpdate
    \/ StorageDelete
    \/ ApiGetInvoice
    \/ ApiDeleteInvoice
SpecStorage == Init /\ [][NextStorage]_vars

----------------------------------------------------------------------------
(* The validation of the two parsers on the same detected document types *)

\* parse_invoice_from_pdf: a document with detected types is refused when
\* none of them has a confidence of at least 0.9
parse_invoice_from_pdf_refuses(doc_types) ==
    /\ doc_types # <<>>
    /\ ~\E k \in DOMAIN doc_types : doc_types[k].confidence.n >= MinConfidence
\* parse_invoice_from_pdf_enhanced: the validation loop raised
parse_invoice_from_pdf_enhanced_refuses(doc_types) ==
    Validate(None, TypesOf(Document(<<>>, doc_types))).refused

\* the confidences a detected type may carry, in hundredths
GateConfidences ==
    {Num(0), Num(1), Num(50), Num(89), Num(90), Num(95), Num(100)}
GateLists ==
    UNION {[1..n -> {DetectedDocumentType(c) : c \in GateConfidences}] :
               n \in 0..MaxTypes}

InitGate ==
    /\ invoices = {}
    /\ items = {}
    /\ confidences = {}
    /\ last \in {[op |-> "detected_document_types", arg |-> doc_types] :
                     doc_types \in GateLists}
    /\ storage = EmptyDict
    /\ erp_calls = 0
    /\ doc_client = None
    /\ requests = EmptyDict

\* both parsers validate the same list of detected types
ValidateBoth ==
    /\ last.op = "detected_document_types"
    /\ last' = [op |-> "validated", arg |-> last.arg,
                basic |-> parse_invoice_from_pdf_refuses(last.arg),
                enhanced |-> parse_invoice_from_pdf_enhanced_refuses(last.arg)]
    /\ UNCHANGED <<invoices, items, confidences, storage, erp_calls,
                   doc_client,
                   requests>>

SpecGate == InitGate /\ [][ValidateBoth]_vars

----------------------------------------------------------------------------
(* Concurrent calls of save_invoice_extraction: each call builds its rows, *)
(* then its commit inserts them in one transaction of the database         *)

RequestIds == 1..MaxRequests
\* a commit that inserts without a check of the primary keys
FlushedUnchecked(data) ==
    [ret |-> NewInvoice(data), raised |-> "",
     invoices |-> invoices \cup {NewInvoice(data)},
     items |-> items \cup NewItems(GetD(data.data, "Items", <<>>),
                                   Get(data.data, "InvoiceId")),
     confidences |-> confidences
         \cup {NewConfidence(GetD(data, "dataConfidence", EmptyDict),
                              Get(data.data, "InvoiceId"))}]
\* db.add(invoice); db.commit(): the rows built from data are inserted in
\* the tables as they are at the commit, or the commit raises
Flushed(data) == save_invoice_extraction(data)

\* a call has built its Invoice, Item and Confidence objects from data
BeginSave ==
    \E r \in RequestIds \ DOMAIN requests, data \in ExtractionResults :
        /\ requests' = Put(requests, r,
                           [op |-> "save_invoice_extraction", pc |-> "built",
                            data |-> data, raised |-> ""])
        /\ UNCHANGED <<invoices, items, confidences, last, storage,
                       erp_calls, doc_client>>
\* the commit of a call that has built its objects
CommitSave ==
    \E r \in DOMAIN requests :
        /\ requests[r].pc = "built"
        /\ IdsAvailable(Len(GetD(requests[r].data.data, "Items", <<>>)))
        /\ \E out \in {Flushed(requests[r].data)} :
               /\ invoices' = out.invoices
               /\ items' = out.items
               /\ confidences' = out.confidences
               /\ last' = [op |-> "save_invoice_extraction",
                           arg |-> Get(requests[r].data.data, "InvoiceId"),
                           ret |-> out.ret, raised |-> out.raised]
               /\ requests' = Put(requests, r,
                                  [requests[r] EXCEPT !.pc = "done",
                                                      !.raised = out.raised])
        /\ UNCHANGED <<storage, erp_calls, doc_client>>

NextRace == BeginSave \/ CommitSave
SpecRace == Init /\ [][NextRace]_vars

----------------------------------------------------------------------------
(* db.py: the session get_db opens for a request and closes after it      *)

\* the endpoints that depend on get_db
SessionEndpoints ==
    {"POST /extract", "GET /invoices/vendor/{vendor_name}",
     "GET /invoices/{invoice_id}"}
\* how a handler ends: it returns, it raises an HTTPException, it raises
\* another exception
Exits == {"return", "HTTPException", "Exception"}
\* a get_db without try/finally: the session is closed after a return only
get_db_after_yield_without_finally(exit) ==
    IF exit = "return" THEN 1 ELSE 0
\* "finally: db.close()": the calls of db.close() after the handler ended
get_db_after_yield(exit) == 1

\* get_db up to its yield: db = SessionLocal()
OpenSession ==
    \E r \in RequestIds \ DOMAIN requests, endpoint \in SessionEndpoints :
        /\ requests' = Put(requests, r,
                           [op |-> endpoint, pc |-> "handler", db |-> "open",
                            closes |-> 0, exit |-> ""])
        /\ UNCHANGED <<invoices, items, confidences, last, storage,
                       erp_calls, doc_client>>
\* the handler of request r ends
EndHandler(r) ==
    /\ r \in DOMAIN requests
    /\ requests[r].pc = "handler"
    /\ \E exit \in Exits :
           requests' = Put(requests, r,
                           [requests[r] EXCEPT !.pc = "finally",
                                               !.exit = exit])
    /\ UNCHANGED <<invoices, items, confidences, last, storage, erp_calls,
                   doc_client>>
\* get_db after its yield, then the response leaves: the request is over
CloseSession(r) ==
    /\ r \in DOMAIN requests
    /\ requests[r].pc = "finally"
    /\ \E closes \in {get_db_after_yield(requests[r].exit)} :
           requests' = Put(requests, r,
                           [requests[r] EXCEPT
                                !.pc = "done",
                                !.closes = closes,
                                !.db = IF closes > 0 THEN "closed"
                                       ELSE "open"])
    /\ UNCHANGED <<invoices, items, confidences, last, storage, erp_calls,
                   doc_client>>

NextSession ==
    \/ OpenSession
    \/ \E r \in RequestIds : EndHandler(r)
    \/ \E r \in RequestIds : CloseSession(r)
\* a handler that was started ends, and the generator is resumed after it
SpecSession ==
    /\ Init
    /\ [][NextSession]_vars
    /\ \A r \in RequestIds : WF_vars(EndHandler(r)) /\ WF_vars(CloseSession(r))

----------------------------------------------------------------------------
(* Properties *)

\* the call that made the last step
Did(op) == last.op = op
\* s contains sub
Contains(s, sub) ==
    \E i \in 0..(Len(s) - Len(sub)) : SubSeq(s, i + 1, i + Len(sub)) = sub
ItemsWith(invoice_id) == {i \in items : i.InvoiceId = invoice_id}

\* the step is a save_invoice_extraction(data) that committed
SaveStep(data) ==
    /\ ~SaveFails(data)
    /\ Commit("save_invoice_extraction", Get(data.data, "InvoiceId"), data,
              save_invoice_extraction(data))

\* a composite read r carries the header fields and the Items of data
SameAsSaved(r, data) ==
    LET its == GetD(data.data, "Items", <<>>)
    IN /\ r # None
       /\ r.InvoiceId = Get(data.data, "InvoiceId")
       /\ \A k \in DOMAIN HeaderFields :
              r[HeaderFields[k]] = Get(data.data, HeaderFields[k])
       /\ Len(r.Items) = Len(its)
       /\ \A n \in 1..Len(its) : \A k \in DOMAIN ItemFields :
              r.Items[n][ItemFields[k]] = Get(its[n], ItemFields[k])

\* C2: after save_invoice_extraction succeeds for an extraction result whose
\* InvoiceId was not stored, get_invoice_by_id with that id returns the same
\* InvoiceId and scalar header fields and an Items list with exactly the
\* entries of data.Items (none for an empty or absent list).
C2_SaveThenReadReturnsTheSame ==
    [][\A data \in ExtractionResults :
          SaveStep(data) =>
              SameAsSaved(get_invoice_by_id(Get(data.data, "InvoiceId"))', data)
      ]_vars

\* C3: GET /invoices/{id} answers 404 with a detail containing "not found"
\* for an id that is not stored, and 200 with the composite invoice (the
\* stored header and one entry per item row of that id) for a stored one.
C3_GetByIdIs404ExactlyWhenAbsent ==
    Did("GET /invoices/{invoice_id}") =>
        LET r == last.response
        IN IF last.arg \in StoredIds
           THEN /\ r.status = 200
                /\ r.body.InvoiceId = last.arg
                /\ \A k \in DOMAIN HeaderFields :
                       r.body[HeaderFields[k]] =
                           InvoiceRow(last.arg)[HeaderFields[k]]
                /\ Len(r.body.Items) = Cardinality(ItemsWith(last.arg))
                /\ \A i \in ItemsWith(last.arg) :
                       \E n \in DOMAIN r.body.Items :
                           r.body.Items[n] = ItemDict(i)
           ELSE /\ r.status = 404
                /\ Contains(r.detail, <<"n", "o", "t", " ", "f", "o", "u", "n", "d">>)
\* both answers occur: an unknown id while other invoices are stored ...
C3_Witness404 ==
    /\ Did("GET /invoices/{invoice_id}")
    /\ last.response.status = 404
    /\ invoices # {}
\* ... and a stored invoice with items
C3_Witness ==
    /\ Did("GET /invoices/{invoice_id}")
    /\ last.response.status = 200
    /\ Len(last.response.body.Items) = 2
    /\ InvoiceIds \ StoredIds # {}

\* C4: after delete_invoice(id) succeeded, no item row and no confidence row
\* carries that id, a fetch of the id answers 404, and the header, the item
\* rows and the confidence row of every other id are what they were.
C4_DeleteCascadesAndSparesTheOthers ==
    [][\A id \in InvoiceIds :
          (last'.op = "delete_invoice" /\ last'.arg = id /\ last'.ret = True) =>
             /\ id \in StoredIds
             /\ id \notin StoredIds'
             /\ ItemsWith(id)' = {}
             /\ ConfidenceRow(id)' = None
             /\ app_get_invoice_by_id(id)'.status = 404
             /\ \A other \in InvoiceIds \ {id} :
                    /\ InvoiceRow(other)' = InvoiceRow(other)
                    /\ ItemsWith(other)' = ItemsWith(other)
                    /\ ConfidenceRow(other)' = ConfidenceRow(other)
      ]_vars
\* an invoice was deleted while another one, with an item and a confidence
\* row, is stored, and rows remain for it
C4_Witness ==
    /\ Did("delete_invoice")
    /\ last.ret = True
    /\ \E other \in StoredIds :
           ItemsWith(other) # {} /\ ConfidenceRow(other) # None

\* C5: get_invoices_by_vendor(name) returns exactly the stored invoices whose
\* VendorName equals name, each once and as its composite read, in ascending
\* order of the stored InvoiceDate string.
C5_ByVendorIsExactAndOrdered ==
    (Did("GET /invoices/vendor/{vendor_name}")
         \/ Did("app_aseel GET /invoices/vendor/{vendor_name}")) =>
        LET invs == last.response.body.invoices
            matching == {r \in invoices : r.VendorName = last.arg}
        IN /\ {invs[k].InvoiceId : k \in DOMAIN invs}
                  = {r.InvoiceId : r \in matching}
           /\ Len(invs) = Cardinality(matching)
           /\ \A k \in DOMAIN invs :
                  invs[k] = get_invoice_by_id(invs[k].InvoiceId)
           /\ \A i, j \in DOMAIN invs :
                  i < j => LexLeq(invs[i].InvoiceDate.s, invs[j].InvoiceDate.s)
\* two invoices of the vendor with different dates were returned
C5_Witness ==
    /\ Did("GET /invoices/vendor/{vendor_name}")
    /\ Len(last.response.body.invoices) = 2
    /\ last.response.body.invoices[1].InvoiceDate
           # last.response.body.invoices[2].InvoiceDate

\* C6: GET /invoices/vendor/{name} never answers 404; with no stored invoice
\* of that vendor it returns VendorName "Unknown Vendor", TotalInvoices 0
\* and no invoices, otherwise VendorName = name and TotalInvoices = the
\* length of the returned list.  (Stated of both applications' routes.)
C6_ByVendorSentinel ==
    (Did("GET /invoices/vendor/{vendor_name}")
         \/ Did("app_aseel GET /invoices/vendor/{vendor_name}")) =>
        LET r == last.response
        IN /\ r.status # 404
           /\ IF \E row \in invoices : row.VendorName = last.arg
              THEN /\ r.body.VendorName = last.arg
                   /\ r.body.TotalInvoices = Len(r.body.invoices)
              ELSE /\ r.body.VendorName = UnknownVendor
                   /\ r.body.TotalInvoices = 0
                   /\ r.body.invoices = <<>>

\* C9: delete_invoice(id) of an id that is not stored returns False and
\* update_invoice(id, data) of one returns None, and neither changes a row
\* of any table.
C9_UnknownIdChangesNothing ==
    [][((last'.op = "delete_invoice" \/ last'.op = "update_invoice")
            /\ last'.arg \notin StoredIds) =>
          /\ last'.op = "delete_invoice" => last'.ret = False
          /\ last'.op = "update_invoice" => last'.ret = None
          /\ last'.raised = ""
          /\ invoices' = invoices
          /\ items' = items
          /\ confidences' = confidences
      ]_vars
\* update_invoice returned None for an id that is not stored although item
\* and confidence rows carrying that id exist
C9_Witness ==
    /\ Did("update_invoice")
    /\ last.ret = None
    /\ last.arg \notin StoredIds
    /\ ItemsWith(last.arg) # {}
    /\ ConfidenceRow(last.arg) # None
    /\ invoices # {}

\* the upload of the last POST /extract is a PDF neither by its content type
\* nor by its file name
NotPdf(upload) ==
    /\ upload.content_type # "application/pdf"
    /\ \/ upload.filename = None
       \/ ~EndsWith(Lower(upload.filename.s), <<".", "p", "d", "f">>)
\* the three tables are what they were
NothingPersisted ==
    /\ invoices' = invoices
    /\ items' = items
    /\ confidences' = confidences

\* C1: POST /extract of a file whose content type is not application/pdf and
\* whose name does not end in .pdf (in any case, or is missing) answers 400,
\* calls parse_invoice_from_pdf_enhanced not once and persists nothing.
C1_NonPdfIs400BeforeExtraction ==
    [][(last'.op = "POST /extract" /\ NotPdf(last'.arg)) =>
          /\ last'.response.status = 400
          /\ last'.parse_calls = 0
          /\ NothingPersisted
          /\ doc_client' = doc_client
      ]_vars
\* a file named a.txt was refused while invoices are stored
C1_Witness ==
    /\ Did("POST /extract")
    /\ NotPdf(last.arg)
    /\ last.arg.filename = Str(<<"a", ".", "t", "x", "t">>)
    /\ last.response.status = 400
    /\ last.parse_calls = 0
    /\ invoices # {}

\* C7: a POST /extract whose document came back from the service with a
\* detected document type of confidence below 0.9 answers 400 and persists
\* nothing.
C7_LowConfidenceIsRefused ==
    [][(/\ last'.op = "POST /extract"
        /\ last'.analysed
        /\ \E k \in DOMAIN last'.confidences :
               last'.confidences[k].n < MinConfidence) =>
          /\ last'.response.status = 400
          /\ NothingPersisted
      ]_vars

\* C8: a POST /extract whose extraction result carries an InvoiceId that is
\* already stored answers 500, and the stored header, item rows and
\* confidence rows, and so the number of invoices, are what they were.
C8_DuplicateIdIs500AndKeepsTheStore ==
    [][(/\ last'.op = "POST /extract"
        /\ last'.invoice_id # None
        /\ last'.invoice_id \in StoredIds) =>
          /\ last'.response.status = 500
          /\ NothingPersisted
          /\ Cardinality(invoices') = Cardinality(invoices)
      ]_vars
\* an already stored invoice with an item was submitted again and refused
C8_Witness ==
    /\ Did("POST /extract")
    /\ last.invoice_id # None
    /\ last.invoice_id \in StoredIds
    /\ last.response.status = 500
    /\ ItemsWith(last.invoice_id) # {}
    /\ ConfidenceRow(last.invoice_id) # None

\* the response and the store of the upload of the step, had its sync found
\* the ERP configured and the call succeeded
WithSuccessfulSync ==
    upload_invoice(last'.arg.filename, TRUE,
                   Config("https://erp.example.com", "key", "secret"),
                   last'.parse, last'.analysis,
                   Returns([data |-> [name |-> "PINV-1"]]))

\* C10: a POST /api/invoices/upload with sync_to_erpnext=true answers with
\* the status and the invoice of the same upload with a successful sync,
\* whether the ERP call succeeded, raised or was skipped for want of a
\* configuration; it leaves the store that upload leaves, and the invoice it
\* created is stored after it.
C10_ErpOutcomeIsInvisible ==
    [][(last'.op = "POST /api/invoices/upload" /\ last'.arg.sync_to_erpnext) =>
          /\ last'.response = WithSuccessfulSync.response
          /\ storage' = WithSuccessfulSync.store
          /\ last'.parse.raised = "" =>
                 /\ last'.response.status = 201
                 /\ last'.response.body.id \in DOMAIN storage'
                 /\ storage'[last'.response.body.id] = last'.response.body
                 /\ DOMAIN storage \subseteq DOMAIN storage'
      ]_vars
\* the ERP call of an upload raised, and the upload answered 201 with the
\* analysed invoice, which is stored next to an older one
C10_Witness ==
    /\ Did("POST /api/invoices/upload")
    /\ last.arg.sync_to_erpnext
    /\ last.calls = 1
    /\ last.erp.raised = "Exception"
    /\ last.response.status = 201
    /\ last.response.body.risk_score # None
    /\ last.response.body.id \in DOMAIN storage
    /\ Cardinality(DOMAIN storage) = 2
\* the sync of an upload was skipped: the ERP is not configured
C10_WitnessSkipped ==
    /\ Did("POST /api/invoices/upload")
    /\ last.arg.sync_to_erpnext
    /\ last.parse.raised = ""
    /\ ~validate_erpnext_config(last.cls)
    /\ last.calls = 0
    /\ last.response.status = 201

\* C11: POST /extract passes an HTTPException of the parser through with
\* its own status (400 or 503), answers 500 for any other exception of the
\* parser and for any exception of the save, which is rolled back, and
\* answers 200 with the extraction result only if the save committed.
C11_ExtractStatusMapping ==
    [][(last'.op = "POST /extract" /\ last'.parse_calls = 1) =>
          /\ last'.parser.raised = "HTTPException" =>
                 /\ last'.response.status = last'.parser.status_code
                 /\ last'.response.status \in {400, 503}
                 /\ NothingPersisted
          /\ last'.parser.raised \notin {"", "HTTPException"} =>
                 /\ last'.response.status = 500
                 /\ NothingPersisted
          /\ (last'.parser.raised = "" /\ last'.save.raised # "") =>
                 /\ last'.response.status = 500
                 /\ NothingPersisted
          /\ last'.response.status = 200 =>
                 /\ last'.parser.raised = ""
                 /\ last'.save.raised = ""
                 /\ last'.returned
                 /\ last'.invoice_id \notin StoredIds
                 /\ last'.invoice_id \in StoredIds'
      ]_vars
\* the parser raised an exception that is no HTTPException while an invoice
\* is stored, and the request answered 500
C11_Witness ==
    /\ Did("POST /extract")
    /\ last.parser.raised = "AttributeError"
    /\ last.response.status = 500
    /\ invoices # {}

\* the parser of the step got no client
NoClient == doc_client' = None
\* the parser of the step called the service, and the call raised
ServiceRaised ==
    /\ doc_client' # None
    /\ last'.pdf_bytes # <<>>
    /\ last'.service # ""
\* the parser of the step raised HTTPException(status_code)
Signals(status_code) ==
    /\ last'.parser.raised = "HTTPException"
    /\ last'.parser.status_code = status_code

\* C12, as stated: parse_invoice_from_pdf_enhanced signals 503 when the
\* client is not configured or analyze_document raises, and signals 400
\* whenever the input bytes are empty.
C12_EmptyBytesAlways400 ==
    [][(last'.op = "POST /extract" /\ last'.parse_calls = 1) =>
          /\ (NoClient \/ ServiceRaised) => Signals(503)
          /\ last'.pdf_bytes = <<>> => Signals(400)
      ]_vars
\* C12, amended: parse_invoice_from_pdf_enhanced signals 503 when the client
\* is not configured, whatever the bytes, and when the analyze_document call
\* raises; it signals 400 for empty input bytes when the client is
\* configured, without calling the service.
C12_UnavailableAndEmptyInput ==
    [][(last'.op = "POST /extract" /\ last'.parse_calls = 1) =>
          /\ (NoClient \/ ServiceRaised) => Signals(503)
          /\ (last'.pdf_bytes = <<>> /\ ~NoClient) =>
                 Signals(400) /\ ~last'.analysed
      ]_vars
\* a parser without a client got empty bytes and signalled 503
C12_Witness ==
    /\ Did("POST /extract")
    /\ last.parse_calls = 1
    /\ doc_client = None
    /\ last.pdf_bytes = <<>>
    /\ last.parser = [raised |-> "HTTPException", status_code |-> 503]

\* C13: amount_format never raises and returns the parsed number or the
\* value it was given: the number for a currency-like string ("$58.11" gives
\* 58.11, "4,293.55" gives 4293.55), the input itself for every other input.
C13_NumberOrTheInput ==
    Did("amount_format") =>
        /\ last.raised = ""
        /\ last.ret = last.arg \/ (last.ret.t = "num" /\ last.arg.t = "str")
        /\ last.arg = Str(<<"$", "5", "8", ".", "1", "1">>) =>
               last.ret = Num(5811)
        /\ last.arg = Str(<<"4", ",", "2", "9", "3", ".", "5", "5">>) =>
               last.ret = Num(429355)

\* a text is written "Mon DD YYYY": a capitalised month abbreviation, two
\* digits and four digits with one blank between them, naming a day the
\* calendar has
InDateFormat(cs) ==
    /\ Len(cs) = 11
    /\ cs[4] = " " /\ cs[8 - 1] = " "
    /\ MonthOf(SubSeq(cs, 1, 3)) # 0
    /\ cs[1] \in UpperCase /\ cs[2] \notin UpperCase /\ cs[3] \notin UpperCase
    /\ \A i \in {5, 6, 8, 9, 10, 11} : IsDigit(cs[i])
    /\ IntOf(SubSeq(cs, 8, 11)) >= 1
    /\ IntOf(SubSeq(cs, 5, 6)) >= 1
    /\ IntOf(SubSeq(cs, 5, 6))
           <= DaysIn(IntOf(SubSeq(cs, 8, 11)), MonthOf(SubSeq(cs, 1, 3)))
\* the ISO-8601 text of midnight UTC of the day such a text names
MidnightUtc(cs) ==
    SubSeq(cs, 8, 11) \o <<"-">> \o Padded(MonthOf(SubSeq(cs, 1, 3)), 2)
        \o <<"-">> \o SubSeq(cs, 5, 6)
        \o <<"T", "0", "0", ":", "0", "0", ":", "0", "0",
             "+", "0", "0", ":", "0", "0">>

\* C14: format_date never raises for a string; a string written
\* "Mon DD YYYY" becomes the ISO-8601 text of midnight UTC of that day, and
\* a string that strptime does not parse is returned unchanged.
C14_IsoOrUnchanged ==
    (Did("format_date") /\ last.arg.t = "str") =>
        /\ last.raised = ""
        /\ InDateFormat(last.arg.s) => last.ret = Str(MidnightUtc(last.arg.s))
        /\ ~IsDate(Words(Strip(last.arg.s))) => last.ret = last.arg
\* "Mar 06 2012" became "2012-03-06T00:00:00+00:00"
C14_Witness ==
    /\ Did("format_date")
    /\ last.arg = Str(<<"M", "a", "r", " ", "0", "6", " ", "2", "0", "1", "2">>)
    /\ last.ret = Str(<<"2", "0", "1", "2", "-", "0", "3", "-", "0", "6",
                        "T", "0", "0", ":", "0", "0", ":", "0", "0",
                        "+", "0", "0", ":", "0", "0">>)

\* the step is a call of save_invoice_extraction(data)
SaveCall(data) ==
    /\ last'.arg = Get(data.data, "InvoiceId")
    /\ Commit("save_invoice_extraction", Get(data.data, "InvoiceId"), data,
              save_invoice_extraction(data))
\* the rows of old are in new, and added is what new has more
Adds(old, new, added) == old \subseteq new /\ new \ old = added

\* C15: save_invoice_extraction is atomic.  A call that raises leaves the
\* three tables as they were; a call that returns has added the header, one
\* item row per entry of data.Items carrying the header's id, and one
\* confidence row carrying it, and nothing else.
C15_SaveIsAllOrNothing ==
    [][last'.op = "save_invoice_extraction" =>
          \A data \in ExtractionResults :
          SaveCall(data) =>
              LET id == Get(data.data, "InvoiceId")
                  its == GetD(data.data, "Items", <<>>)
              IN IF last'.raised # ""
                 THEN NothingPersisted
                 ELSE /\ Adds(invoices, invoices', {last'.ret})
                      /\ last'.ret.InvoiceId = id
                      /\ items \subseteq items'
                      /\ Cardinality(items' \ items) = Len(its)
                      /\ \A i \in items' \ items : i.InvoiceId = id
                      /\ \A n \in 1..Len(its) : \E i \in items' \ items :
                             ItemDict(i) = its[n]
                      /\ confidences \subseteq confidences'
                      /\ \E c \in confidences' :
                             /\ c.InvoiceId = id
                             /\ confidences' \ confidences = {c}
      ]_vars
\* a save with two items went through while another invoice is stored
C15_Witness ==
    /\ Did("save_invoice_extraction")
    /\ last.raised = ""
    /\ Cardinality(ItemsWith(last.arg)) = 2
    /\ ConfidenceRow(last.arg) # None
    /\ StoredIds \ {last.arg} # {}

\* data carries no confidence data: neither key holds a non-empty dict
NoConfidenceData(data) ==
    \A k \in {"dataConfidence", "Confidence"} :
        k \notin DOMAIN data \/ DOMAIN data[k] = {}
\* the rows of every invoice but invoice_id are what they were
OthersKept(invoice_id) ==
    \A other \in InvoiceIds \ {invoice_id} :
        /\ InvoiceRow(other)' = InvoiceRow(other)
        /\ ItemsWith(other)' = ItemsWith(other)
        /\ ConfidenceRow(other)' = ConfidenceRow(other)
\* the step is a call of update_invoice(invoice_id, data) on a stored
\* invoice, for some data
Updates(invoice_id) ==
    /\ last'.op = "update_invoice"
    /\ last'.arg = invoice_id
    /\ invoice_id \in StoredIds

\* C16: update_invoice(id, data) on a stored invoice sets the scalar header
\* fields that are keys of data and keeps the others; the InvoiceId stays
\* (also when data has an "InvoiceId" key); without "Items" in data the item
\* rows stay, without confidence data the confidence rows stay, and the rows
\* of the other invoices stay.
C16_UpdateChangesOnlyWhatDataNames ==
    [][\A id \in InvoiceIds :
          Updates(id) =>
              /\ last'.raised = ""
              /\ last'.ret = InvoiceRow(id)'
              /\ InvoiceRow(id)' # None
              /\ \A k \in DOMAIN HeaderFields :
                     InvoiceRow(id)'[HeaderFields[k]] =
                         IF HeaderFields[k] \in DOMAIN last'.data
                         THEN last'.data[HeaderFields[k]]
                         ELSE InvoiceRow(id)[HeaderFields[k]]
              /\ StoredIds' = StoredIds
              /\ Cardinality(invoices') = Cardinality(invoices)
              /\ "Items" \notin DOMAIN last'.data => items' = items
              /\ NoConfidenceData(last'.data) => confidences' = confidences
              /\ OthersKept(id)
      ]_vars
\* the invoice "1", with items and a confidence row, took the date of data
\* that names another InvoiceId, while the invoice "2" is stored
C16_Witness ==
    /\ Did("update_invoice")
    /\ last.arg = Str(<<"1">>)
    /\ last.ret # None
    /\ last.ret.InvoiceId = Str(<<"1">>)
    /\ "InvoiceId" \in DOMAIN last.data
    /\ last.ret.InvoiceDate = Str(<<"8">>)
    /\ ItemsWith(last.arg) # {}
    /\ ConfidenceRow(last.arg) # None
    /\ Str(<<"2">>) \in StoredIds

\* C17: update_invoice(id, data) with "Items" in data on a stored invoice
\* replaces the invoice's items: a read of the invoice then gives exactly
\* the entries of data.Items in their order (none for an empty list), no
\* row that carried the id before is left in the table, under any owner,
\* and the item rows of the other invoices are what they were.
C17_ItemsAreReplaced ==
    [][\A id \in InvoiceIds :
          (Updates(id) /\ "Items" \in DOMAIN last'.data) =>
              /\ get_invoice_by_id(id)'.Items = last'.data["Items"]
              /\ Cardinality(ItemsWith(id)') = Len(last'.data["Items"])
              /\ \A old \in ItemsWith(id) : \A i \in items' : i.id # old.id
              /\ \A other \in InvoiceIds \ {id} :
                     ItemsWith(other)' = ItemsWith(other)
      ]_vars
\* the one item of an invoice was replaced by another row (the row with
\* id 1 is gone), while the other invoice is stored
C17_Witness ==
    /\ Did("update_invoice")
    /\ last.ret # None
    /\ "Items" \in DOMAIN last.data
    /\ Len(last.data["Items"]) = 1
    /\ \E i \in items : i.id = 2 /\ i.InvoiceId = last.arg
    /\ \A i \in items : i.id # 1
    /\ StoredIds \ {last.arg} # {}

\* the confidence data of data: what "dataConfidence" holds unless that is
\* absent or empty, then what "Confidence" holds
ConfidenceData(data) ==
    IF "dataConfidence" \in DOMAIN data /\ DOMAIN data["dataConfidence"] # {}
    THEN data["dataConfidence"]
    ELSE data["Confidence"]
ConfidencesWith(invoice_id) == {c \in confidences : c.InvoiceId = invoice_id}

\* C18: update_invoice(id, data) with confidence data on a stored invoice
\* leaves exactly one confidence record of the id: an existing one with the
\* fields the data names set and the others kept, or else a new one with
\* the fields the data names; the records of the other invoices stay.
C18_ConfidenceIsUpserted ==
    [][\A id \in InvoiceIds :
          (Updates(id) /\ ~NoConfidenceData(last'.data)) =>
              /\ Cardinality(ConfidencesWith(id)') = 1
              /\ Cardinality(ConfidencesWith(id)) <= 1
              /\ \A k \in DOMAIN HeaderFields :
                     ConfidenceRow(id)'[HeaderFields[k]] =
                         IF HeaderFields[k] \in DOMAIN ConfidenceData(last'.data)
                         THEN ConfidenceData(last'.data)[HeaderFields[k]]
                         ELSE IF ConfidencesWith(id) = {} THEN None
                         ELSE ConfidenceRow(id)[HeaderFields[k]]
              /\ \A other \in InvoiceIds \ {id} :
                     ConfidencesWith(other)' = ConfidencesWith(other)
      ]_vars
\* a record of every field took the one field of the data and kept the
\* others
C18_Witness ==
    /\ Did("update_invoice")
    /\ last.ret # None
    /\ ~NoConfidenceData(last.data)
    /\ ConfidenceData(last.data) = ConfPart
    /\ ConfidenceRow(last.arg) # None
    /\ ConfidenceRow(last.arg).VendorName = ConfPart.VendorName
    /\ ConfidenceRow(last.arg).SubTotal = ConfFull.SubTotal

\* C19: in every state the queries.py operations reach, every stored item
\* row carries the InvoiceId of exactly one stored invoice.
C19_EveryItemHasItsInvoice ==
    \A i \in items :
        Cardinality({r \in invoices : r.InvoiceId = i.InvoiceId}) = 1

\* C20: in every state the queries.py operations reach, every stored invoice
\* has at most one confidence record and every confidence record carries
\* the InvoiceId of a stored invoice.
C20_ConfidenceIsOneToOne ==
    /\ \A r \in invoices : Cardinality(ConfidencesWith(r.InvoiceId)) <= 1
    /\ \A c \in confidences : c.InvoiceId \in StoredIds

\* C22: no retry.  One POST /extract request calls analyze_document at most
\* once, and when that call raised the request ends with an error and has
\* stored nothing; one upload request calls create_purchase_invoice at most
\* once.
C22_NoRetry ==
    [][/\ last'.op = "POST /extract" =>
              /\ last'.service_calls <= 1
              /\ last'.parse_calls <= 1
              /\ (last'.service_calls >= 1 /\ last'.service # "") =>
                     /\ last'.response.status >= 400
                     /\ last'.service_calls = 1
                     /\ NothingPersisted
       /\ last'.op = "POST /api/invoices/upload" =>
              /\ last'.calls <= 1
              /\ erp_calls' - erp_calls = last'.calls
      ]_vars
\* the one call of the service raised and the request answered 503
C22_Witness ==
    /\ Did("POST /extract")
    /\ last.service_calls = 1
    /\ last.service # ""
    /\ last.response.status = 503
\* an upload called the ERP once, and the call raised
C22_WitnessErp ==
    /\ Did("POST /api/invoices/upload")
    /\ last.calls = 1
    /\ last.erp.raised # ""

NameIn(field) ==
    IF field.field_label = None THEN "" ELSE field.field_label.name.k
\* the names of the named fields of a sequence of fields
Names(fields) == {NameIn(fields[k]) : k \in DOMAIN fields} \ {""}
\* the last field of that name
LastNamed(fields, name) ==
    fields[CHOOSE k \in DOMAIN fields :
               /\ NameIn(fields[k]) = name
               /\ \A j \in DOMAIN fields : NameIn(fields[j]) = name => j <= k]
\* the value object has a plain text
HasText(field_value) ==
    /\ field_value # None
    /\ "text" \in DOMAIN field_value
    /\ field_value.text # None
    /\ field_value.text # Str(<<>>)
\* the plain text when there is one, the typed value only when there is no
\* text, default when there is neither
TextFirst(field_value, default) ==
    IF HasText(field_value) THEN field_value.text
    ELSE IF /\ field_value # None
            /\ "value" \in DOMAIN field_value
            /\ field_value.value # None
    THEN field_value.value
    ELSE default
\* the value after the post-processing by field name
PostProcessed(name, value, money) ==
    IF name = "InvoiceDate" /\ money = MoneyFields THEN format_date(value).value
    ELSE IF name \in money THEN amount_format(value)
    ELSE value

\* C24: in the result of parse_invoice_from_pdf_enhanced the value of every
\* named top-level field and of every named line-item sub-field is the
\* field's plain text when it has one and its typed value only when it has
\* no text (post-processed by field name); dataConfidence has exactly one
\* entry per named top-level field except "Items"; data.Items holds one
\* flat map per line-item group of the Items field.
C24_TextBeforeTypedValue ==
    (Did("parse_invoice_from_pdf_enhanced") /\ last.raised = "") =>
        LET fields == last.arg
            data == last.ret.data
        IN /\ DOMAIN data = Names(fields)
           /\ DOMAIN last.ret.dataConfidence = Names(fields) \ {"Items"}
           /\ \A name \in Names(fields) \ {"Items"} :
                  data[name] =
                      PostProcessed(
                          name,
                          TextFirst(LastNamed(fields, name).field_value, None),
                          MoneyFields)
           /\ "Items" \in Names(fields) =>
                  LET groups == LastNamed(fields, "Items").field_value.items.v
                  IN /\ data["Items"].t = "list"
                     /\ Len(data["Items"].v) = Len(groups)
                     /\ \A g \in DOMAIN groups :
                            LET subs == groups[g].field_value.items.v
                                item == data["Items"].v[g]
                            IN /\ DOMAIN item = Names(subs)
                               /\ \A name \in Names(subs) :
                                      item[name] =
                                          PostProcessed(
                                              name,
                                              TextFirst(
                                                  LastNamed(subs, name).field_value,
                                                  Str(<<>>)),
                                              ItemMoneyFields)
\* the same without the post-processing: every named top-level field and
\* every named sub-field holds the chosen text or typed value itself
C24_TheTextItself ==
    (Did("parse_invoice_from_pdf_enhanced") /\ last.raised = "") =>
        /\ \A name \in Names(last.arg) \ {"Items"} :
               last.ret.data[name] =
                   TextFirst(LastNamed(last.arg, name).field_value, None)
        /\ "Items" \in Names(last.arg) =>
               LET groups == LastNamed(last.arg, "Items").field_value.items.v
               IN \A g \in DOMAIN groups :
                      \A name \in Names(groups[g].field_value.items.v) :
                          last.ret.data["Items"].v[g][name] =
                              TextFirst(
                                  LastNamed(groups[g].field_value.items.v,
                                            name).field_value,
                                  Str(<<>>))
\* a document with a field that has a text and a typed value, and with an
\* Items field of two groups, was read
C24_Witness ==
    /\ Did("parse_invoice_from_pdf_enhanced")
    /\ last.raised = ""
    /\ \E k \in DOMAIN last.arg :
           /\ NameIn(last.arg[k]) = "VendorName"
           /\ HasText(last.arg[k].field_value)
           /\ last.arg[k].field_value.value # None
    /\ last.ret.data["VendorName"] = Str(<<"S">>)
    /\ "Items" \in DOMAIN last.ret.data
    /\ Len(last.ret.data["Items"].v) = 2

\* C25: for every list of detected-document-type confidences
\* parse_invoice_from_pdf_enhanced raises the 400 validation error exactly
\* when parse_invoice_from_pdf does, and a document with at least one
\* detected type of confidence >= 0.9 is accepted by both.
C25_SameGate ==
    Did("validated") =>
        /\ last.enhanced = last.basic
        /\ (\E k \in DOMAIN last.arg :
                last.arg[k].confidence.n >= MinConfidence)
               => (~last.basic /\ ~last.enhanced)

\* C27: after any sequence of save, update and delete calls every key k of
\* the store maps to an invoice whose id equals k, so get(k) returns an
\* invoice with id k and get_all holds no two invoices with the same id.
C27_KeysAreIds ==
    /\ \A k \in DOMAIN storage : storage[k].id = k
    /\ \A k \in DOMAIN storage :
           StorageService_get(storage, k).value.id = k
    /\ \A j, k \in DOMAIN storage : j # k => storage[j].id # storage[k].id

\* the calls that look an id up
Lookups ==
    {"StorageService.get", "StorageService.update", "StorageService.delete"}
\* C28: get, update and delete of an id that is not stored raise
\* InvoiceNotFoundError and leave the stored invoices unchanged (the two
\* endpoints answer 404); delete of a stored id removes exactly that
\* invoice and a get of the same id that follows raises
\* InvoiceNotFoundError; save of a stored id replaces that invoice and
\* leaves the number of stored invoices unchanged.
C28_StorageErrors ==
    [][/\ (last'.op \in Lookups /\ last'.arg \notin DOMAIN storage) =>
              /\ last'.raised = "InvoiceNotFoundError"
              /\ storage' = storage
       /\ (/\ last'.op \in {"GET /api/invoices/{invoice_id}",
                            "DELETE /api/invoices/{invoice_id}"}
           /\ last'.arg \notin DOMAIN storage) =>
              /\ last'.response.status = 404
              /\ storage' = storage
       /\ (last'.op = "StorageService.delete" /\ last'.arg \in DOMAIN storage) =>
              /\ last'.raised = ""
              /\ DOMAIN storage' = DOMAIN storage \ {last'.arg}
              /\ \A k \in DOMAIN storage' : storage'[k] = storage[k]
       /\ (/\ last.op = "StorageService.delete"
           /\ last.raised = ""
           /\ last'.op = "StorageService.get"
           /\ last'.arg = last.arg) =>
              last'.raised = "InvoiceNotFoundError"
       /\ (last'.op = "StorageService.save" /\ last'.arg \in DOMAIN storage) =>
              /\ Cardinality(DOMAIN storage') = Cardinality(DOMAIN storage)
              /\ storage'[last'.arg] = last'.value
              /\ \A k \in DOMAIN storage \ {last'.arg} :
                     storage'[k] = storage[k]]_vars
\* one of two stored invoices was deleted
C28_Witness ==
    /\ Did("StorageService.delete")
    /\ last.stored
    /\ last.raised = ""
    /\ Cardinality(DOMAIN storage) = 1
\* an invoice was saved over a stored one
C28_WitnessReplaced ==
    /\ Did("StorageService.save")
    /\ last.stored
    /\ Cardinality(DOMAIN storage) = 2
\* an update of an id that is not stored raised
C28_WitnessNotStored ==
    /\ Did("StorageService.update")
    /\ last.raised = "InvoiceNotFoundError"
    /\ storage # EmptyDict

\* C30: once doc_client is set no later request replaces or resets it;
\* while the initialisation fails doc_client stays None, every later call
\* of get_doc_client attempts the initialisation again, and every parse
\* request made while the client is None fails with an error without a call
\* of the external service.
C30_LazyClient ==
    [][/\ doc_client # None => doc_client' = doc_client
       /\ (last'.op = "POST /extract" /\ last'.parse_calls = 1) =>
              /\ doc_client # None => last'.init_doc_client = "not attempted"
              /\ doc_client = None =>
                     last'.init_doc_client \in {"failed", "succeeded"}
              /\ last'.init_doc_client = "succeeded" => doc_client' = Client
              /\ last'.init_doc_client = "failed" => doc_client' = None
              /\ doc_client' = None =>
                     /\ last'.response.status = 503
                     /\ last'.service_calls = 0]_vars
\* a request found no client, its initialisation failed and it was refused
C30_Witness ==
    /\ Did("POST /extract")
    /\ last.init_doc_client = "failed"
    /\ doc_client = None
    /\ last.response.status = 503
\* a request with a PDF found the client set and called the service
C30_WitnessKept ==
    /\ Did("POST /extract")
    /\ last.init_doc_client = "not attempted"
    /\ last.parse_calls = 1
    /\ last.service_calls = 1
    /\ doc_client = Client

\* the place of a call among the calls of a request (0 when it was not made)
Place(trace, call) ==
    IF \E k \in DOMAIN trace : trace[k] = call
    THEN CHOOSE k \in DOMAIN trace : trace[k] = call
    ELSE 0
\* C29: in POST /api/invoices/upload create_purchase_invoice is called
\* only if sync_to_erpnext is true and Config.validate_erpnext_config()
\* holds, only after the invoice was parsed and stored and always after the
\* analysis attempt finished; a failed analysis prevents neither the sync
\* nor the 201, and the sync then carries no risk score.
C29_SyncComesLast ==
    Did("POST /api/invoices/upload") =>
        LET synced == Place(last.trace, "create_purchase_invoice") # 0
            wanted == /\ last.parse.raised = ""
                      /\ last.arg.sync_to_erpnext
                      /\ validate_erpnext_config(last.cls)
        IN /\ synced <=> wanted
           /\ synced <=> last.calls = 1
           /\ synced =>
                  /\ last.response.status = 201
                  /\ 0 < Place(last.trace, "parse")
                  /\ Place(last.trace, "parse") < Place(last.trace, "save")
                  /\ Place(last.trace, "save")
                         < Place(last.trace, "analyze_invoice")
                  /\ Place(last.trace, "analyze_invoice")
                         < Place(last.trace, "create_purchase_invoice")
                  /\ Place(last.trace, "create_purchase_invoice")
                         = Len(last.trace)
           /\ (last.parse.raised = "" /\ last.analysis.raised # "") =>
                  /\ last.response.status = 201
                  /\ last.response.body.risk_score = None
                  /\ wanted => (synced /\ last.risk_score = None)
           /\ (synced /\ last.analysis.raised = "") =>
                  last.risk_score = last.response.body.risk_score
\* an upload whose analysis failed was synced without a risk score
C29_Witness ==
    /\ Did("POST /api/invoices/upload")
    /\ last.analysis.raised = "Exception"
    /\ last.calls = 1
    /\ last.trace = <<"parse", "save", "analyze_invoice",
                      "create_purchase_invoice">>
    /\ last.risk_score = None
    /\ last.response.status = 201
\* an upload that was analysed was synced with its risk score
C29_WitnessScored ==
    /\ Did("POST /api/invoices/upload")
    /\ last.calls = 1
    /\ last.risk_score = Num(80)

\* the calls that returned for an InvoiceId
Winners(id) ==
    {r \in DOMAIN requests :
         /\ requests[r].pc = "done"
         /\ requests[r].raised = ""
         /\ Get(requests[r].data.data, "InvoiceId") = id}
\* C26: for any interleaving of concurrent save_invoice_extraction calls
\* with the same InvoiceId at most one call succeeds, there are never two
\* invoices with that id, and the stored header, items and confidence row
\* are those of the one call that succeeded.
C26_OneSaveWins ==
    \A id \in InvoiceIds :
        /\ Cardinality(Winners(id)) <= 1
        /\ Cardinality({row \in invoices : row.InvoiceId = id}) <= 1
        /\ Cardinality({c \in confidences : c.InvoiceId = id}) <= 1
        /\ \A r \in Winners(id) :
               /\ InvoiceRow(id) = NewInvoice(requests[r].data)
               /\ SameAsSaved(get_invoice_by_id(id), requests[r].data)
               /\ ConfidenceRow(id) =
                      NewConfidence(GetD(requests[r].data, "dataConfidence",
                                         EmptyDict), id)
        /\ Winners(id) = {} =>
               /\ id \notin StoredIds
               /\ ItemsOf(id) = <<>>
               /\ ConfidenceRow(id) = None
\* two calls with the same InvoiceId and different data were in flight
\* together; both have committed, the first of the two ids lost
C26_Witness ==
    \E r, q \in DOMAIN requests :
        /\ r < q
        /\ requests[r].pc = "done"
        /\ requests[q].pc = "done"
        /\ requests[r].raised = "IntegrityError"
        /\ requests[q].raised = ""
        /\ Get(requests[r].data.data, "InvoiceId")
               = Get(requests[q].data.data, "InvoiceId")
        /\ requests[r].data # requests[q].data

====
